---- MODULE Spec2Model ----
(***************************************************************************)
(* Model of the financial-advisor agent: the retrieval service             *)
(* (src/lib/rag.ts: import of the two corpora, similarity search, lexical  *)
(* fallback) and the message orchestrator / webhook reactor                *)
(* (src/unnamed/part_001: FinancialAdvisorAgent).                          *)
(*                                                                         *)
(* Texts are sequences of one-character strings.  An optional value (an    *)
(* embedding vector, a similarity distance) is a sequence of length 0 or   *)
(* 1: << >> is SQL NULL / JS null.                                         *)
(***************************************************************************)
EXTENDS Integers, Sequences, FiniteSets, TLC

VARIABLES
    \* ---- persistence (prisma) ----
    emailStore,         \* rows of "EmailEmbedding"
    contactStore,       \* rows of "HubSpotContactEmbedding"
    clock,              \* source of createdAt
    \* ---- RAGService ----
    ragAvailable,       \* RAGService.isOpenAIAvailable (embeddings client built)
    runs,               \* import runs: position of each importEmails / importHubSpotContacts call
    seen,               \* external ids whose loop iteration has completed, per corpus
    search,             \* the last searchRelevantContext call and what it returned
    \* ---- FinancialAdvisorAgent ----
    isOpenAIAvailable,  \* FinancialAdvisorAgent.isOpenAIAvailable
    openai,             \* FinancialAdvisorAgent.openai: "client" or "null"
    sessionToken,       \* FinancialAdvisorAgent.sessionToken: "none" when undefined
    ongoingInstructions,\* user.ongoingInstructions, per user id
    pc,                 \* position of the current processMessage / processWebhookEvent call
    turn,               \* inputs of the current call
    messages,           \* the turns assembled for the model
    modelRequests,      \* the requests sent to chat.completions.create, in order
    messageResponse,    \* response.choices[0].message of the first model call
    toolResults,        \* the toolResults array of the tool loop
    tcIndex,            \* position of the for-of loop over tool_calls
    executed,           \* executeToolCall calls of the current call, in order
    collaboratorCalls,  \* external collaborator operations performed, in order
    modelError,         \* what the last chat.completions.create call threw, if it threw
    finalResponse,      \* finalResponse.choices[0].message of the second model call
    outcome,            \* what the call returned or threw
    \* ---- the routes and their tables ----
    userRows,           \* the ids that have a row in the user table
    chatMessages,       \* rows of the chat message table, in createdAt order
    route,              \* the current request of a route handler and its response
    lastUpdate,         \* per user, the instructions of the last update that succeeded
    tasks               \* rows of the task table; a row's id is its position

ragVars == <<emailStore, contactStore, clock, ragAvailable, runs, seen, search>>
agentVars == <<isOpenAIAvailable, openai, sessionToken, ongoingInstructions, pc, turn, messages,
               modelRequests, messageResponse, toolResults, tcIndex, executed,
               collaboratorCalls, modelError, finalResponse, outcome>>
routeVars == <<userRows, chatMessages, route, lastUpdate>>
vars == <<emailStore, contactStore, clock, ragAvailable, runs, seen, search,
          isOpenAIAvailable, openai, sessionToken, ongoingInstructions, pc, turn,
          messages, modelRequests, messageResponse, toolResults, tcIndex, executed,
          collaboratorCalls, modelError, finalResponse, outcome,
          userRows, chatMessages, route, lastUpdate, tasks>>

(***************************************************************************)
(* Bounds of the model.                                                    *)
(***************************************************************************)
\* largest `limit` a searchRelevantContext call is given
MaxLimit == 2
\* tool invocations in one model reply
MaxToolCalls == 2
\* stored turns of the longest conversation a chat request continues
MaxTurns == 21
\* task invocations in one model reply
MaxTaskCalls == 2

NULL == << >>
Some(x) == <<x>>

Range(s) == {s[i] : i \in DOMAIN s}

Min(a, b) == IF a < b THEN a ELSE b

Abs(n) == IF n < 0 THEN 0 - n ELSE n

(***************************************************************************)
(* Text.                                                                   *)
(***************************************************************************)
\* String.prototype.toLowerCase, one character
LowerChar(c) == IF c = "A" THEN "a" ELSE IF c = "B" THEN "b" ELSE c

\* String.prototype.toLowerCase
ToLowerCase(t) == [i \in DOMAIN t |-> LowerChar(t[i])]

\* String.prototype.split(' '): the pieces between single spaces, empty ones included
RECURSIVE SplitFrom(_, _, _)
SplitFrom(t, i, cur) ==
    IF i > Len(t) THEN <<cur>>
    ELSE IF t[i] = " " THEN <<cur>> \o SplitFrom(t, i + 1, <<>>)
    ELSE SplitFrom(t, i + 1, Append(cur, t[i]))

Split(t) == SplitFrom(t, 1, <<>>)

\* { contains: term, mode: 'insensitive' }
ContainsInsensitive(field, term) ==
    LET f == ToLowerCase(field)
        p == ToLowerCase(term)
    IN \E k \in 0..(Len(f) - Len(p)) : \A j \in 1..Len(p) : f[k + j] = p[j]

\* query.toLowerCase().split(' ').filter(term => term.length > 2)
TermLongEnough(term) == Len(term) > 2

SearchTerms(query) == SelectSeq(Split(ToLowerCase(query)), TermLongEnough)

(***************************************************************************)
(* The external sources the imports read, and the identities involved.     *)
(***************************************************************************)
Users == {"u1", "u2"}

MsgIds == {"m1", "m2", "m3"}

ContactIds == {"c1", "c2"}

RunIds == {"r1", "r2"}

\* what gmail.getMessage returns for a message id (id, subject, from, to, date, body)
GmailMessage(id) ==
    CASE id = "m1" -> [id |-> "m1", subject |-> <<"a","b","b","a">>, from |-> <<"a">>,
                       to |-> <<"b">>, body |-> <<"a","b">>, date |-> 2]
      [] id = "m2" -> [id |-> "m2", subject |-> <<"a">>, from |-> <<"b">>,
                       to |-> <<"a","b","b">>, body |-> <<"B","A","B">>, date |-> 1]
      [] OTHER     -> [id |-> "m3", subject |-> <<>>, from |-> <<"B","a","b","b">>,
                       to |-> <<"a">>, body |-> <<"a"," ","b">>, date |-> 2]

\* the message ids a user's mailbox can list
Mailbox(u) == IF u = "u1" THEN {"m1", "m2", "m3"} ELSE {"m3"}

\* what hubspot.getContacts returns for a contact id; the company changes between versions
HubSpotContact(id, version) ==
    IF id = "c1"
    THEN [id |-> "c1",
          properties |-> [firstname |-> <<"A","b","b">>, lastname |-> <<"a">>,
                          email |-> <<"a","b">>, phone |-> <<"b","a","b">>,
                          company |-> IF version = 1 THEN <<"a","b">> ELSE <<"b","a","b">>,
                          notes_last_contacted |-> <<>>]]
    ELSE [id |-> "c2",
          properties |-> [firstname |-> <<"b">>, lastname |-> <<"b","a">>,
                          email |-> <<"a">>, phone |-> <<"a","b","b">>,
                          company |-> <<"a">>,
                          notes_last_contacted |-> <<"b","a","b","b">>]]

\* the contact ids a user's CRM portal can list
Portal(u) == IF u = "u1" THEN {"c1", "c2"} ELSE {"c2"}

\* the queries searchRelevantContext is called with
Queries ==
    { <<"A","b","b">>,
      <<"a","b"," ","b","a">>,
      <<"a","b"," ","b","a","b">> }

(***************************************************************************)
(* The embedding provider: embedQuery maps a text to a vector.  A vector   *)
(* is one integer here, and <=> is the absolute difference.                *)
(***************************************************************************)
IsB(c) == LowerChar(c) = "b"

EmbedQuery(text) == Len(SelectSeq(text, IsB))

\* `Subject: ${subject}\nFrom: ${from}\nTo: ${to}\nBody: ${body}`
EmailText(m) == m.subject \o m.from \o m.to \o m.body

\* contactText of importHubSpotContacts
ContactText(c) ==
    c.properties.firstname \o c.properties.lastname \o c.properties.email
        \o c.properties.phone \o c.properties.company \o c.properties.notes_last_contacted

\* embedding <=> q of pgvector: NULL when the row has no vector
Distance(embedding, q) == IF embedding = NULL THEN NULL ELSE Some(Abs(embedding[1] - q))

(***************************************************************************)
(* Query results: ORDER BY ... LIMIT / orderBy ... take.  Rows that tie in  *)
(* the ordering come in any order, so a query has a set of possible        *)
(* results.                                                                *)
(***************************************************************************)
SeqsNoDup(S, n) ==
    {s \in [1..n -> S] : \A i, j \in 1..n : i # j => s[i] # s[j]}

\* the first `limit` rows of S in an order in which no row comes after a row that
\* before[row, other] puts it before
OrderedTake(S, before, limit) ==
    LET n == Min(limit, Cardinality(S))
    IN {s \in SeqsNoDup(S, n) :
            /\ \A i, j \in 1..n : i < j => ~before[s[j], s[i]]
            /\ \A x \in S \ Range(s) : \A i \in 1..n : ~before[x, s[i]]}

DateAsc(a, b) == a.date < b.date

\* orderBy: { date: 'desc' }
DateDesc(a, b) == a.date > b.date

\* orderBy: { createdAt: 'desc' }
CreatedAtDesc(a, b) == a.createdAt > b.createdAt

DistanceDesc(a, b, q) ==
    LET da == Distance(a.embedding, q)
        db == Distance(b.embedding, q)
    IN da # NULL /\ (db = NULL \/ da[1] > db[1])

\* ORDER BY embedding <=> q: ascending, and PostgreSQL puts NULL distances last
DistanceAsc(a, b, q) ==
    LET da == Distance(a.embedding, q)
        db == Distance(b.embedding, q)
    IN da # NULL /\ (db = NULL \/ da[1] < db[1])

(***************************************************************************)
(* RAGService.simpleTextSearch                                             *)
(***************************************************************************)
\* OR over the terms of: subject, body or from contains the term
EmailMatches(row, terms) ==
    \E i \in DOMAIN terms :
        \/ ContainsInsensitive(row.subject, terms[i])
        \/ ContainsInsensitive(row.body, terms[i])
        \/ ContainsInsensitive(row.from, terms[i])

\* OR over the terms of: firstName, lastName, email, company or notes contains the term
ContactMatches(row, terms) ==
    \E i \in DOMAIN terms :
        \/ ContainsInsensitive(row.firstName, terms[i])
        \/ ContainsInsensitive(row.lastName, terms[i])
        \/ ContainsInsensitive(row.email, terms[i])
        \/ ContainsInsensitive(row.company, terms[i])
        \/ ContainsInsensitive(row.notes, terms[i])

\* one element of the `emails` list of a result; row is the stored row it was made from
EmailHit(row, score) ==
    [type |-> "email",
     content |-> <<row.subject, row.from, row.to, row.body>>,
     score |-> score,
     row |-> row]

\* one element of the `contacts` list of a result
ContactHit(row, score) ==
    [type |-> "contact",
     content |-> <<row.firstName, row.lastName, row.email, row.company, row.notes>>,
     score |-> score,
     row |-> row]

LexicalEmailRowsAnyUser(userId, query, limit) ==
    LET rows == {r \in emailStore : EmailMatches(r, SearchTerms(query))}
    IN OrderedTake(rows, [a \in rows, b \in rows |-> DateDesc(a, b)], limit)

\* prisma.emailEmbedding.findMany({ where, orderBy: { date: 'desc' }, take: limit })
LexicalEmailRows(userId, query, limit) ==
    LET rows == {r \in emailStore : r.userId = userId /\ EmailMatches(r, SearchTerms(query))}
    IN OrderedTake(rows, [a \in rows, b \in rows |-> DateDesc(a, b)], limit)

\* prisma.hubSpotContactEmbedding.findMany({ where, orderBy: { createdAt: 'desc' }, take: limit })
LexicalContactRows(userId, query, limit) ==
    LET rows == {r \in contactStore :
                    r.userId = userId /\ ContactMatches(r, SearchTerms(query))}
    IN OrderedTake(rows, [a \in rows, b \in rows |-> CreatedAtDesc(a, b)], limit)

\* score of a hit of the text search
TextScore == Some(0)

TextSearchRethrow ==
    [threw |-> TRUE, emails |-> << >>, contacts |-> << >>, path |-> "empty"]

\* the catch of simpleTextSearch: it logs and returns { emails: [], contacts: [] }
TextSearchCatch ==
    [threw |-> FALSE, emails |-> << >>, contacts |-> << >>, path |-> "empty"]

\* the outcomes of simpleTextSearch; lexFail names the findMany that throws
SimpleTextSearch(userId, query, limit, lexFail) ==
    IF lexFail # "none"
    THEN {TextSearchCatch}
    ELSE {[threw |-> FALSE,
           emails |-> [i \in DOMAIN es |-> EmailHit(es[i], TextScore)],
           contacts |-> [i \in DOMAIN cs |-> ContactHit(cs[i], TextScore)],
           path |-> "lexical"] :
            es \in LexicalEmailRows(userId, query, limit),
            cs \in LexicalContactRows(userId, query, limit)}

(***************************************************************************)
(* RAGService.searchRelevantContext                                        *)
(***************************************************************************)
\* SELECT ... FROM "EmailEmbedding" WHERE "userId" = $1 ORDER BY embedding <=> $q LIMIT $limit
SimilarEmailRows(userId, q, limit) ==
    LET rows == {r \in emailStore : r.userId = userId}
    IN OrderedTake(rows, [a \in rows, b \in rows |-> DistanceAsc(a, b, q)], limit)

\* SELECT ... FROM "HubSpotContactEmbedding" WHERE "userId" = $1 ORDER BY embedding <=> $q LIMIT $limit
SimilarContactRows(userId, q, limit) ==
    LET rows == {r \in contactStore : r.userId = userId}
    IN OrderedTake(rows, [a \in rows, b \in rows |-> DistanceAsc(a, b, q)], limit)

\* the results of the try block of searchRelevantContext when nothing in it throws
SimilaritySearch(userId, query, limit) ==
    LET q == EmbedQuery(query)
    IN {[threw |-> FALSE,
         emails |-> [i \in DOMAIN es |-> EmailHit(es[i], Distance(es[i].embedding, q))],
         contacts |-> [i \in DOMAIN cs |-> ContactHit(cs[i], Distance(cs[i].embedding, q))],
         path |-> "similarity"] :
            es \in SimilarEmailRows(userId, q, limit),
            cs \in SimilarContactRows(userId, q, limit)}

\* what can throw inside the try block: embedQuery, the first $queryRaw, the second
SimFailures == {"none", "embed", "emails", "contacts"}

\* what can throw inside simpleTextSearch: the first findMany, the second
LexFailures == {"none", "emails", "contacts"}

\* searchRelevantContext calls simpleTextSearch: the provider is unavailable, or
\* something in the try block threw
TextSearchRuns(available, simFail) == ~available \/ simFail # "none"

SearchRelevantContextPerCorpus(available, userId, query, limit, simFail, lexFail) ==
    IF ~available \/ simFail \in {"embed", "emails"}
    THEN SimpleTextSearch(userId, query, limit, lexFail)
    ELSE IF simFail = "contacts"
    THEN {[sim EXCEPT !.contacts = lex.contacts] :
            sim \in SimilaritySearch(userId, query, limit),
            lex \in SimpleTextSearch(userId, query, limit, lexFail)}
    ELSE SimilaritySearch(userId, query, limit)

\* the outcomes of searchRelevantContext
SearchRelevantContext(available, userId, query, limit, simFail, lexFail) ==
    IF TextSearchRuns(available, simFail)
    THEN SimpleTextSearch(userId, query, limit, lexFail)
    ELSE SimilaritySearch(userId, query, limit)

\* the limit getContextForQuestion searches with
ContextLimit == 10

\* RAGService.getContextForQuestion: the labelled hits, emails first; << >> is ''
ContextOf(results) ==
    [i \in DOMAIN results.emails |-> <<"Email", results.emails[i].content>>]
        \o [i \in DOMAIN results.contacts |-> <<"Contact", results.contacts[i].content>>]

GetContextForQuestion(available, userId, question, simFail, lexFail) ==
    {ContextOf(r) :
        r \in SearchRelevantContext(available, userId, question, ContextLimit, simFail, lexFail)}

(***************************************************************************)
(* RAGService.importEmails / importHubSpotContacts.  A run is one call;    *)
(* the existence check and the create of an item are separate awaits.      *)
(***************************************************************************)
\* the record of a searchRelevantContext call: its arguments, whether the text search
\* ran (lexical) and whether a findMany of it threw (lexFailed), and the outcome; for a
\* call made by getContextForQuestion, caller says so and context is the block returned
NoSearch ==
    [called |-> FALSE, userId |-> "none", query |-> << >>, limit |-> 0,
     lexical |-> FALSE, lexFailed |-> FALSE, caller |-> "none", context |-> << >>,
     result |-> [threw |-> FALSE, emails |-> << >>, contacts |-> << >>, path |-> "empty"]]

IdleRun ==
    [status |-> "idle", kind |-> "none", userId |-> "none", items |-> <<>>, idx |-> 0,
     embedThrew |-> FALSE]

MsgOrder == <<"m1", "m2", "m3">>

ContactOrder == <<"c1", "c2">>

\* the messages gmail.getMessages returns when the mailbox lists the ids of sub
FetchedMessages(sub) ==
    LET Listed(id) == id \in sub
        ids == SelectSeq(MsgOrder, Listed)
    IN [i \in DOMAIN ids |-> GmailMessage(ids[i])]

\* contacts.results of hubspot.getContacts when the portal lists the ids of sub
FetchedContacts(sub, version) ==
    LET Listed(id) == id \in sub
        ids == SelectSeq(ContactOrder, Listed)
    IN [i \in DOMAIN ids |-> HubSpotContact(ids[i], version)]

RunActive(r) == runs[r].status \in {"check", "create"}

\* a run that has returned ("done") or thrown ("failed")
Finished(status) == [IdleRun EXCEPT !.status = status]

\* a run that has thrown because embedQuery threw
EmbedFailed == [Finished("failed") EXCEPT !.embedThrew = TRUE]

\* the run's position after the current item: the next item, or the end of the loop
Advance(run) ==
    IF run.idx + 1 > Len(run.items)
    THEN Finished("done")
    ELSE [run EXCEPT !.idx = run.idx + 1, !.status = "check"]

\* importEmails up to the for loop; the service creation or getMessages may throw
ImportEmailsStart(r, userId) ==
    /\ ~RunActive(r)
    /\ \/ runs' = [runs EXCEPT ![r] = Finished("failed")]
       \/ \E sub \in SUBSET Mailbox(userId) :
            runs' = [runs EXCEPT ![r] =
                        Advance([status |-> "check", kind |-> "email", userId |-> userId,
                                 items |-> FetchedMessages(sub), idx |-> 0,
                                 embedThrew |-> FALSE])]
    /\ UNCHANGED <<emailStore, contactStore, clock, ragAvailable, seen, search>>
    /\ UNCHANGED agentVars
    /\ UNCHANGED tasks
    /\ UNCHANGED routeVars

\* importHubSpotContacts up to the for loop
ImportHubSpotContactsStart(r, userId) ==
    /\ ~RunActive(r)
    /\ \/ runs' = [runs EXCEPT ![r] = Finished("failed")]
       \/ \E sub \in SUBSET Portal(userId), version \in {1, 2} :
            runs' = [runs EXCEPT ![r] =
                        Advance([status |-> "check", kind |-> "contact", userId |-> userId,
                                 items |-> FetchedContacts(sub, version), idx |-> 0,
                                 embedThrew |-> FALSE])]
    /\ UNCHANGED <<emailStore, contactStore, clock, ragAvailable, seen, search>>
    /\ UNCHANGED agentVars
    /\ UNCHANGED tasks
    /\ UNCHANGED routeVars

\* findUnique({ where: { messageId } }) / findUnique({ where: { contactId } })
Existing(kind, id) ==
    IF kind = "email"
    THEN {row \in emailStore : row.messageId = id}
    ELSE {row \in contactStore : row.contactId = id}

AlreadyImportedNever(kind, id) == FALSE

\* `if (existing)`: the item's external id is already stored
AlreadyImported(kind, id) == Existing(kind, id) # {}

\* the existence check of the current item
ImportCheck(r) ==
    /\ runs[r].status = "check"
    /\ LET run == runs[r]
           item == run.items[run.idx]
       IN IF AlreadyImported(run.kind, item.id)
          THEN /\ runs' = [runs EXCEPT ![r] = Advance(run)]
               /\ seen' = seen \cup {<<run.kind, item.id>>}
          ELSE /\ runs' = [runs EXCEPT ![r].status = "create"]
               /\ seen' = seen
    /\ UNCHANGED <<emailStore, contactStore, clock, ragAvailable, search>>
    /\ UNCHANGED agentVars
    /\ UNCHANGED tasks
    /\ UNCHANGED routeVars

\* the row emailEmbedding.create stores
EmailRow(userId, m, embedding) ==
    [userId |-> userId, messageId |-> m.id, subject |-> m.subject, from |-> m.from,
     to |-> m.to, body |-> m.body, date |-> m.date, embedding |-> embedding]

\* the row hubSpotContactEmbedding.create stores
ContactRow(userId, c, embedding, createdAt) ==
    [userId |-> userId, contactId |-> c.id, firstName |-> c.properties.firstname,
     lastName |-> c.properties.lastname, email |-> c.properties.email,
     phone |-> c.properties.phone, company |-> c.properties.company,
     notes |-> c.properties.notes_last_contacted, createdAt |-> createdAt,
     embedding |-> embedding]

\* the embedding of an item: null when the provider is unavailable or embedQuery throws
ItemEmbedding(available, embedOk, text) ==
    IF available /\ embedOk THEN Some(EmbedQuery(text)) ELSE NULL

EmbeddingRethrows(available, embedOk) == available /\ ~embedOk

\* the catch around embedQuery logs and goes on: an embedding failure never leaves the
\* loop
EmbeddingThrows(available, embedOk) == FALSE

\* the embedding and the create of the current item; the store rejects a second row
\* with the same external id, and a create may fail for another reason (createOk)
ImportCreate(r) ==
    /\ runs[r].status = "create"
    /\ \E embedOk \in BOOLEAN, createOk \in BOOLEAN :
        LET run == runs[r]
            item == run.items[run.idx]
            stored == createOk /\ Existing(run.kind, item.id) = {}
        IN /\ IF EmbeddingThrows(ragAvailable, embedOk)
              THEN /\ runs' = [runs EXCEPT ![r] = EmbedFailed]
                   /\ UNCHANGED <<emailStore, contactStore, clock, seen>>
              ELSE IF ~stored
              THEN /\ runs' = [runs EXCEPT ![r] = Finished("failed")]
                   /\ UNCHANGED <<emailStore, contactStore, clock, seen>>
              ELSE /\ runs' = [runs EXCEPT ![r] = Advance(run)]
                   /\ seen' = seen \cup {<<run.kind, item.id>>}
                   /\ IF run.kind = "email"
                      THEN /\ emailStore' = emailStore \cup
                                {EmailRow(run.userId, item,
                                          ItemEmbedding(ragAvailable, embedOk, EmailText(item)))}
                           /\ UNCHANGED <<contactStore, clock>>
                      ELSE /\ contactStore' = contactStore \cup
                                {ContactRow(run.userId, item,
                                            ItemEmbedding(ragAvailable, embedOk, ContactText(item)),
                                            clock)}
                           /\ clock' = clock + 1
                           /\ UNCHANGED emailStore
    /\ UNCHANGED <<ragAvailable, search>>
    /\ UNCHANGED agentVars
    /\ UNCHANGED tasks
    /\ UNCHANGED routeVars

\* the records a searchRelevantContext(userId, query, limit) call can leave
SearchRecords(userId, query, limit) ==
    UNION {{[called |-> TRUE, userId |-> userId, query |-> query, limit |-> limit,
             lexical |-> TextSearchRuns(ragAvailable, simFail),
             lexFailed |-> TextSearchRuns(ragAvailable, simFail) /\ lexFail # "none",
             caller |-> "searchRelevantContext", context |-> << >>,
             result |-> res] :
                res \in SearchRelevantContext(ragAvailable, userId, query, limit, simFail, lexFail)} :
           simFail \in SimFailures, lexFail \in LexFailures}

\* one call of searchRelevantContext(userId, query, limit)
Search(userId, query, limit) ==
    /\ \E rec \in SearchRecords(userId, query, limit) : search' = rec
    /\ UNCHANGED <<emailStore, contactStore, clock, ragAvailable, runs, seen>>
    /\ UNCHANGED agentVars
    /\ UNCHANGED tasks
    /\ UNCHANGED routeVars

\* the records a getContextForQuestion(userId, question) call can leave
ContextRecords(userId, question) ==
    {[rec EXCEPT !.caller = "getContextForQuestion", !.context = ContextOf(rec.result)] :
        rec \in SearchRecords(userId, question, ContextLimit)}

\* one call of getContextForQuestion(userId, question)
GetContext(userId, question) ==
    /\ \E rec \in ContextRecords(userId, question) : search' = rec
    /\ UNCHANGED <<emailStore, contactStore, clock, ragAvailable, runs, seen>>
    /\ UNCHANGED agentVars
    /\ UNCHANGED tasks
    /\ UNCHANGED routeVars

(***************************************************************************)
(* FinancialAdvisorAgent: values.                                          *)
(***************************************************************************)
\* the user of the chat requests and of the agent calls made outside a route
AgentUser == "u1"

\* this.userId: the user the agent is constructed for; the webhook route constructs one
\* agent per user
ThisUserId == IF route.kind = "webhook" THEN route.user ELSE AgentUser

\* user.ongoingInstructions: "NULL" when the user has none (or no such user row)
NoInstructions == "NULL"

InstructionValues == {NoInstructions, "rule"}

\* the user table without instructions
NoUserInstructions == [u \in Users |-> NoInstructions]

\* the eleven tools getTools declares
DeclaredTools ==
    {"search_emails", "search_contacts", "create_contact", "update_contact",
     "add_contact_note", "send_email", "get_available_slots", "create_calendar_event",
     "search_calendar_events", "create_task", "update_task"}

\* the two tools that need a gmail credential
GmailTools == {"search_emails", "send_email"}

\* the per-request token the agent is constructed with: session.accessToken, or none
SessionTokens == {"none", "token"}

\* the invocations the model's replies are built from: a name and function.arguments,
\* which is a JSON text JSON.parse accepts or one it rejects; one name is not declared
ReplyInvocations ==
    {<<"search_calendar_events", "json">>, <<"create_calendar_event", "json">>,
     <<"search_emails", "json">>, <<"send_email", "malformed">>, <<"no_such_tool", "json">>}

\* JSON.parse(toolCall.function.arguments) of the task tools: taskId 0 and status "none"
\* stand for a property the arguments do not have
NoArgs == [taskId |-> 0, status |-> "none"]

\* the tool_calls lists a reply can carry: every list of at most MaxToolCalls calls;
\* the call at position i has the correlation id <<round, i>>
ToolCallLists(round) ==
    UNION {{[i \in 1..n |-> [id |-> <<round, i>>, name |-> f[i][1], arguments |-> f[i][2],
                            parsedArgs |-> NoArgs]] :
                f \in [1..n -> ReplyInvocations]} : n \in 0..MaxToolCalls}

\* message.content of a reply: << >> is null
ReplyContents == {<< >>, <<"reply">>}

\* a reply without tool_calls
PlainReply(content) ==
    [role |-> "assistant", content |-> content, has_tool_calls |-> FALSE, tool_calls |-> << >>]

\* a reply with a tool_calls array (which may be the empty array)
ToolReply(content, calls) ==
    [role |-> "assistant", content |-> content, has_tool_calls |-> TRUE, tool_calls |-> calls]

\* the replies of the first model call: text, or a tool_calls array, which comes with
\* text only when it is empty
Replies ==
    {PlainReply(c) : c \in ReplyContents}
        \cup {ToolReply(c, << >>) : c \in ReplyContents}
        \cup {ToolReply(<< >>, calls) : calls \in ToolCallLists(1)}

\* the replies of the second model call: text only, or text and one more invocation
FinalReplies ==
    {PlainReply(c) : c \in ReplyContents}
        \cup {ToolReply(c, <<[id |-> <<2, 1>>, name |-> "create_calendar_event",
                              arguments |-> "json", parsedArgs |-> NoArgs]>>) : c \in ReplyContents}

\* the code of the error the completion provider answers with in an unsupported region
RegionCode == "unsupported_country_region_territory"

\* thrown values: an Error (with or without a code property), a plain object, a string
Thrown(kind, message, code) == [kind |-> kind, message |-> message, code |-> code]

NoError == Thrown("none", "", "none")

ModelErrors ==
    {Thrown("Error", "403 Country, region, or territory not supported", RegionCode),
     Thrown("Error", "429 rate limit", "rate_limit_exceeded"),
     Thrown("Error", "connection error", "none"),
     Thrown("string", "aborted", "none")}

ToolErrors ==
    {Thrown("Error", "403 forbidden", RegionCode),
     Thrown("string", "rejected", "none")}

DbError == Thrown("Error", "database unreachable", "P1001")

IsRegionErrorAnyCode(e) ==
    /\ e.kind \in {"Error", "object"}
    /\ e.code # "none"

\* error && typeof error === 'object' && 'code' in error && error.code === RegionCode
IsRegionError(e) ==
    /\ e.kind \in {"Error", "object"}
    /\ e.code # "none"
    /\ e.code = RegionCode

\* error instanceof Error ? error.message : String(error)
ErrorMessage(e) ==
    IF e.kind = "Error" THEN e.message
    ELSE IF e.kind = "string" THEN e.message
    ELSE "[object Object]"

(***************************************************************************)
(* FinancialAdvisorAgent.executeToolCall                                   *)
(***************************************************************************)
\* GmailService.createForUser: reads the stored token and throws when the user has none;
\* tokens lists the credentials tried, in order
CreateForUser ==
    {[ok |-> TRUE, tokens |-> <<"stored">>], [ok |-> FALSE, tokens |-> <<"stored">>]}

\* GmailService.createForUserWithSession: getProfile with the session token, and
\* createForUser in its catch
CreateForUserWithSession ==
    {[ok |-> TRUE, tokens |-> <<"session">>]}
        \cup {[ok |-> r.ok, tokens |-> <<"session">> \o r.tokens] : r \in CreateForUser}

\* the gmail service of a search_emails / send_email call: with a session token,
\* createForUserWithSession and createForUser in the catch around it
GmailForTool(token) ==
    IF token # "none"
    THEN {r \in CreateForUserWithSession : r.ok}
            \cup {[ok |-> again.ok, tokens |-> r.tokens \o again.tokens] :
                        r \in {x \in CreateForUserWithSession : ~x.ok}, again \in CreateForUser}
    ELSE CreateForUser

GmailNotConnected == Thrown("Error", "Gmail not connected for this user", "none")

\* a row of the task table; completedAt is null (<< >>) or a time
Task(userId, status, completedAt) ==
    [userId |-> userId, status |-> status, completedAt |-> completedAt]

\* the rows stored before the agent is constructed: two of the agent's user, one of
\* them completed at time 0, and one of another user
StoredTasks ==
    <<Task("u1", "PENDING", NULL), Task("u1", "COMPLETED", Some(0)),
      Task("u2", "PENDING", NULL)>>

\* the status values a model can pass to update_task, "none" for no status
TaskStatuses == {"COMPLETED", "IN_PROGRESS", "none"}

\* prisma rejects an update whose where clause matches no row
RecordNotFound == Thrown("Error", "Record to update not found", "P2025")

\* prisma.task.create({ data: { userId: this.userId, ... } }): status and completedAt
\* take the defaults of the schema
CreateTask(table, userId) == Append(table, Task(userId, "PENDING", NULL))

CompletedAtOrNull(status, previous) ==
    IF status = "COMPLETED" THEN Some(clock) ELSE NULL

\* completedAt: parsedArgs.status === 'COMPLETED' ? new Date() : undefined, and prisma
\* leaves a column alone whose value is undefined
CompletedAt(status, previous) ==
    IF status = "COMPLETED" THEN Some(clock) ELSE previous

\* prisma.task.update({ where: { id: parsedArgs.taskId }, data: { status, ..., completedAt } })
UpdateTask(table, args) ==
    [table EXCEPT ![args.taskId] =
        Task(@.userId,
             IF args.status = "none" THEN @.status ELSE args.status,
             CompletedAt(args.status, @.completedAt))]

\* the outcomes of a task handler: the write is committed, or prisma throws and the
\* table is as before
TaskOutcomes(name, table) ==
    {[threw |-> FALSE, error |-> NoError, value |-> name, calls |-> <<name>>,
      tokens |-> << >>, tasks |-> table],
     [threw |-> TRUE, error |-> DbError, value |-> "none", calls |-> <<name>>,
      tokens |-> << >>, tasks |-> tasks]}

\* the outcomes of a handler once its service exists: the collaborator operation
\* returns or throws
HandlerOutcomes(name, tokens) ==
    {[threw |-> FALSE, error |-> NoError, value |-> name, calls |-> <<name>>,
      tokens |-> tokens, tasks |-> tasks]}
        \cup {[threw |-> TRUE, error |-> e, value |-> "none", calls |-> <<name>>,
                tokens |-> tokens, tasks |-> tasks] : e \in ToolErrors}

\* events of the user's calendar as the calendar API returns them: the summary and the
\* attendees may be missing; an attendee's email is its local part and its domain, or
\* << >> when it has none
CalendarEvents ==
    {[summary |-> "Review", start |-> 1, attendees |-> <<<<"ann", "example.com">>, << >>>>],
     [summary |-> "", start |-> 2, attendees |-> << >>]}

\* what searchEvents returns: events.filter(...), an array that may be empty
SearchResults ==
    {<< >>,
     <<[summary |-> "Review", start |-> 1, attendees |-> <<<<"ann", "example.com">>, << >>>>],
       [summary |-> "", start |-> 2, attendees |-> << >>]>>}

\* the outcomes of the search_calendar_events handler
CalendarSearchOutcomes(name) ==
    {[threw |-> FALSE, error |-> NoError, value |-> events, calls |-> <<name>>,
      tokens |-> << >>, tasks |-> tasks] : events \in SearchResults}
        \cup {[threw |-> TRUE, error |-> e, value |-> "none", calls |-> <<name>>,
                tokens |-> << >>, tasks |-> tasks] : e \in ToolErrors}

ExecuteToolCallNoDefault(toolCall) ==
    IF toolCall.arguments = "malformed"
    THEN {[threw |-> TRUE, error |-> Thrown("Error", "Unexpected token in JSON", "none"),
           value |-> "none", calls |-> << >>, tokens |-> << >>, tasks |-> tasks]}
    ELSE IF toolCall.name \notin DeclaredTools
    THEN {[threw |-> FALSE, error |-> NoError, value |-> "undefined", calls |-> << >>,
           tokens |-> << >>, tasks |-> tasks]}
    ELSE IF toolCall.name = "search_calendar_events"
    THEN CalendarSearchOutcomes(toolCall.name)
    ELSE HandlerOutcomes(toolCall.name, << >>)

\* the outcomes of executeToolCall(toolCall): the value returned or the value thrown,
\* the collaborator operations it performed and the gmail credentials it tried
ExecuteToolCall(toolCall) ==
    IF toolCall.arguments = "malformed"
    THEN {[threw |-> TRUE, error |-> Thrown("Error", "Unexpected token in JSON", "none"),
           value |-> "none", calls |-> << >>, tokens |-> << >>, tasks |-> tasks]}
    ELSE IF toolCall.name \notin DeclaredTools
    THEN {[threw |-> TRUE, error |-> Thrown("Error", "Unknown tool", "none"),
           value |-> "none", calls |-> << >>, tokens |-> << >>, tasks |-> tasks]}
    ELSE IF toolCall.name \in GmailTools
    THEN UNION {IF g.ok
                THEN HandlerOutcomes(toolCall.name, g.tokens)
                ELSE {[threw |-> TRUE, error |-> GmailNotConnected, value |-> "none",
                       calls |-> << >>, tokens |-> g.tokens, tasks |-> tasks]} :
                    g \in GmailForTool(sessionToken)}
    ELSE IF toolCall.name = "create_task"
    THEN TaskOutcomes(toolCall.name, CreateTask(tasks, ThisUserId))
    ELSE IF toolCall.name = "update_task"
    THEN IF toolCall.parsedArgs.taskId \in 1..Len(tasks)
         THEN TaskOutcomes(toolCall.name, UpdateTask(tasks, toolCall.parsedArgs))
         ELSE {[threw |-> TRUE, error |-> RecordNotFound, value |-> "none",
                calls |-> <<toolCall.name>>, tokens |-> << >>, tasks |-> tasks]}
    ELSE IF toolCall.name = "search_calendar_events"
    THEN CalendarSearchOutcomes(toolCall.name)
    ELSE HandlerOutcomes(toolCall.name, << >>)

\* the record of one executeToolCall call: the invocation, the number of model calls
\* made before it, and how it ended
Attempt(toolCall, exec) ==
    [id |-> toolCall.id, after |-> Len(modelRequests), threw |-> exec.threw,
     error |-> exec.error, tokens |-> exec.tokens, calls |-> exec.calls]

\* the entry pushed for a call that returned: content is JSON.stringify(result)
SuccessOutcome(toolCall, value) ==
    [tool_call_id |-> toolCall.id, role |-> "tool", content |-> <<"result", value>>]

\* the entry pushed for a call that threw: content is JSON.stringify({ error: message })
ErrorOutcome(toolCall, e) ==
    [tool_call_id |-> toolCall.id, role |-> "tool", content |-> <<"error", ErrorMessage(e)>>]

PushOutcomeSkipsFailure(results, toolCall, exec) ==
    IF exec.threw
    THEN results
    ELSE Append(results, SuccessOutcome(toolCall, exec.value))

\* the body of the for loop of processMessage: toolResults after one invocation
PushOutcome(results, toolCall, exec) ==
    IF exec.threw
    THEN Append(results, ErrorOutcome(toolCall, exec.error))
    ELSE Append(results, SuccessOutcome(toolCall, exec.value))

(***************************************************************************)
(* FinancialAdvisorAgent.handleFallbackResponse                            *)
(***************************************************************************)
ApologyText == <<"I'm sorry, I'm experiencing technical difficulties.">>

\* the templated reply; context is the retrieved block, lookup the outcome of
\* prisma.user.findUnique ("throws", or the user's instructions)
FallbackContent(message, context, lookup) ==
    IF lookup = "throws"
    THEN ApologyText
    ELSE <<"I understand you're asking about: ", message>>
            \o (IF context # << >> THEN <<"Based on your data, here's what I found:", context>>
                ELSE << >>)
            \o (IF lookup # NoInstructions THEN <<"Your ongoing instructions: ", lookup>>
                ELSE << >>)
            \o <<"I can help you with:", "Note: AI-powered features are currently limited">>

HandleFallbackResponse(message, context, lookup) ==
    [shape |-> "fallback", content |-> FallbackContent(message, context, lookup),
     toolCalls |-> << >>, toolResults |-> << >>,
     meetingData |-> NULL]

\* the outcomes of prisma.user.findUnique(...)?.ongoingInstructions
Lookups == {"throws", ongoingInstructions[ThisUserId]}

(***************************************************************************)
(* FinancialAdvisorAgent.processMessage                                    *)
(***************************************************************************)
NoResponse ==
    [shape |-> "none", content |-> << >>, toolCalls |-> << >>, toolResults |-> << >>,
                                          meetingData |-> NULL]

NoOutcome == [status |-> "none", response |-> NoResponse, error |-> NoError]

Returned(response) == [status |-> "returned", response |-> response, error |-> NoError]

ThrownOut(e) == [status |-> "thrown", response |-> NoResponse, error |-> e]

\* the messages the agent is asked about (the chat route rejects an empty message)
AgentMessages == { <<"A","b","b">> }

\* the conversation windows the caller hands over
Histories ==
    { << >>,
      <<[role |-> "user", content |-> <<"earlier question">>],
        [role |-> "assistant", content |-> <<"earlier answer">>]>> }

ProviderNeverChecked == FALSE

\* `!this.isOpenAIAvailable || !this.openai`
ProviderUnavailable == ~isOpenAIAvailable \/ openai = "null"

\* the grounding blocks getContextForQuestion can return for the message
Contexts(message) ==
    UNION {GetContextForQuestion(ragAvailable, ThisUserId, message, simFail, lexFail) :
                simFail \in SimFailures, lexFail \in LexFailures}

\* the responses handleFallbackResponse(message) can return
FallbackResponses(message) ==
    {HandleFallbackResponse(message, context, lookup) :
        context \in Contexts(message), lookup \in Lookups}

\* messages: the system instruction, the history, the new user turn
AssembleMessages(instructions, context, history, message) ==
    <<[role |-> "system", instructions |-> instructions, context |-> context]>>
        \o history
        \o <<[role |-> "user", content |-> message]>>

CatchOuterRethrows(e, fallback) == ThrownOut(e)

CatchOuterFallsBack(e, fallback) == Returned(fallback)

\* the outer catch of processMessage: fallback on the region error, rethrow otherwise
CatchOuter(e, fallback) ==
    IF IsRegionError(e) THEN Returned(fallback) ELSE ThrownOut(e)

\* the catch around the first model call; what it rethrows reaches the outer catch
CatchFirstCall(e, fallback) ==
    IF IsRegionError(e) THEN Returned(fallback) ELSE CatchOuter(e, fallback)

\* `if (messageResponse.tool_calls)`: an array, even an empty one, is truthy
HasToolCalls(reply) == reply.has_tool_calls

IsSuccessOutcome(entry) == entry.content[1] = "result"

SecondRequestSuccessesOnly(msgs, reply, results) ==
    msgs \o <<reply>> \o SelectSeq(results, IsSuccessOutcome)

\* the messages of the second model call
SecondRequest(msgs, reply, results) == msgs \o <<reply>> \o results

PendingAfterFinalChained(finalReply) ==
    IF finalReply.has_tool_calls THEN finalReply.tool_calls ELSE << >>

\* the invocations of the final reply the agent goes on to execute: none, the final
\* reply is only read for its content
PendingAfterFinal(finalReply) == << >>

\* one entry of meetingData: title, date, time and the attendees' first tokens
MeetingEntry(event) ==
    [title |-> IF event.summary = "" THEN "Untitled Event" ELSE event.summary,
     date |-> <<"toLocaleDateString", event.start>>,
     time |-> <<"toLocaleTimeString", event.start>>,
     attendees |-> [i \in 1..Len(event.attendees) |->
                        IF event.attendees[i] = << >> THEN "Unknown"
                        ELSE event.attendees[i][1]]]

\* positions of the search_calendar_events invocations
CalendarSearches(toolCalls) ==
    {i \in 1..Len(toolCalls) : toolCalls[i].name = "search_calendar_events"}

\* toolResults.find(tr => tr.tool_call_id === calendarSearch.id) for the first
\* search_calendar_events invocation: the positions of the matching entries
CalendarResults(toolCalls, results) ==
    IF CalendarSearches(toolCalls) = {}
    THEN {}
    ELSE LET calendarSearch ==
                toolCalls[CHOOSE i \in CalendarSearches(toolCalls) :
                            \A j \in CalendarSearches(toolCalls) : i <= j]
         IN {k \in 1..Len(results) : results[k].tool_call_id = calendarSearch.id}

\* JSON.parse(calendarResult.content) of the first matching entry
CalendarResult(toolCalls, results) ==
    results[CHOOSE k \in CalendarResults(toolCalls, results) :
                \A j \in CalendarResults(toolCalls, results) : k <= j].content

\* result.map is called on { error: "" }, which passes `result && !result.error`
MeetingDataThrows(toolCalls, results) ==
    /\ CalendarResults(toolCalls, results) # {}
    /\ CalendarResult(toolCalls, results)[1] = "error"
    /\ CalendarResult(toolCalls, results)[2] = ""

NotAFunction == Thrown("Error", "result.map is not a function", "none")

MeetingDataOfAnyCall(toolCalls, results) ==
    IF toolCalls = << >> THEN NULL ELSE Some(<< >>)

\* meetingData: null, or the projection of the outcome of the first calendar search
\* when that outcome is not an error
MeetingData(toolCalls, results) ==
    IF CalendarResults(toolCalls, results) = {}
    THEN NULL
    ELSE LET result == CalendarResult(toolCalls, results)
         IN IF result[1] = "error"
            THEN NULL
            ELSE Some([i \in 1..Len(result[2]) |-> MeetingEntry(result[2][i])])

\* reset of the per-call state
BeginCall ==
    /\ modelRequests' = << >>
    /\ toolResults' = << >>
    /\ executed' = << >>
    /\ collaboratorCalls' = << >>
    /\ tcIndex' = 0
    /\ messageResponse' = PlainReply(<< >>)
    /\ modelError' = NoError
    /\ finalResponse' = PlainReply(<< >>)

\* processMessage up to the first model call
ProcessMessage(message, history) ==
    /\ pc = "idle"
    /\ BeginCall
    /\ turn' = [kind |-> "message", message |-> message, history |-> history]
    /\ IF ProviderUnavailable
       THEN /\ \E fallback \in FallbackResponses(message) : outcome' = Returned(fallback)
            /\ pc' = "done"
            /\ messages' = << >>
       ELSE \E context \in Contexts(message), lookup \in Lookups :
                IF lookup = "throws"
                THEN /\ \E fallback \in FallbackResponses(message) :
                            outcome' = CatchOuter(DbError, fallback)
                     /\ pc' = "done"
                     /\ messages' = << >>
                ELSE /\ messages' = AssembleMessages(lookup, context, history, message)
                     /\ pc' = "model1"
                     /\ outcome' = NoOutcome
    /\ UNCHANGED <<isOpenAIAvailable, openai, sessionToken, ongoingInstructions>>
    /\ UNCHANGED ragVars
    /\ UNCHANGED tasks
    /\ UNCHANGED routeVars

\* the first chat.completions.create call and what follows it up to the tool loop
FirstModelCallOf(replies) ==
    /\ pc = "model1"
    /\ modelRequests' = Append(modelRequests, messages)
    /\ \/ \E reply \in replies :
            IF HasToolCalls(reply)
            THEN /\ messageResponse' = reply
                 /\ tcIndex' = 1
                 /\ pc' = "tools"
                 /\ outcome' = NoOutcome
                 /\ UNCHANGED modelError
            ELSE /\ outcome' = Returned([shape |-> "plain", content |-> reply.content,
                                         toolCalls |-> << >>, toolResults |-> << >>,
                                         meetingData |-> NULL])
                 /\ pc' = "done"
                 /\ messageResponse' = reply
                 /\ UNCHANGED <<tcIndex, modelError>>
       \/ \E e \in ModelErrors, fallback \in FallbackResponses(turn.message) :
            /\ modelError' = e
            /\ outcome' = CatchFirstCall(e, fallback)
            /\ pc' = "done"
            /\ UNCHANGED <<messageResponse, tcIndex>>
    /\ UNCHANGED <<isOpenAIAvailable, openai, sessionToken, ongoingInstructions, turn, messages,
                   toolResults, executed, collaboratorCalls, finalResponse>>
    /\ UNCHANGED ragVars
    /\ UNCHANGED tasks
    /\ UNCHANGED routeVars

FirstModelCall == FirstModelCallOf(Replies)

\* one iteration of the for loop over messageResponse.tool_calls
ExecuteTool ==
    /\ pc = "tools"
    /\ tcIndex <= Len(messageResponse.tool_calls)
    /\ LET toolCall == messageResponse.tool_calls[tcIndex]
       IN \E exec \in ExecuteToolCall(toolCall) :
            /\ toolResults' = PushOutcome(toolResults, toolCall, exec)
            /\ executed' = Append(executed, Attempt(toolCall, exec))
            /\ collaboratorCalls' = collaboratorCalls \o exec.calls
            /\ tasks' = exec.tasks
    /\ tcIndex' = tcIndex + 1
    /\ UNCHANGED <<isOpenAIAvailable, openai, sessionToken, ongoingInstructions, pc, turn, messages,
                   modelRequests, messageResponse, modelError, finalResponse, outcome>>
    /\ UNCHANGED ragVars
    /\ UNCHANGED routeVars

\* the second chat.completions.create call and the return
SecondModelCall ==
    /\ pc = "tools"
    /\ tcIndex > Len(messageResponse.tool_calls)
    /\ modelRequests' =
            Append(modelRequests, SecondRequest(messages, messageResponse, toolResults))
    /\ \/ \E finalReply \in FinalReplies :
            /\ finalResponse' = finalReply
            /\ UNCHANGED modelError
            /\ IF PendingAfterFinal(finalReply) # << >>
               THEN /\ messageResponse' =
                            [finalReply EXCEPT !.tool_calls = PendingAfterFinal(finalReply)]
                    /\ tcIndex' = 1
                    /\ UNCHANGED <<pc, outcome>>
               ELSE /\ IF MeetingDataThrows(messageResponse.tool_calls, toolResults)
                       THEN \E fallback \in FallbackResponses(turn.message) :
                                outcome' = CatchOuter(NotAFunction, fallback)
                       ELSE outcome' =
                                Returned([shape |-> "tools", content |-> finalReply.content,
                                          toolCalls |-> messageResponse.tool_calls,
                                          toolResults |-> toolResults,
                                          meetingData |->
                                            MeetingData(messageResponse.tool_calls,
                                                        toolResults)])
                    /\ pc' = "done"
                    /\ UNCHANGED <<messageResponse, tcIndex>>
       \/ \E e \in ModelErrors, fallback \in FallbackResponses(turn.message) :
            /\ modelError' = e
            /\ outcome' = CatchOuter(e, fallback)
            /\ pc' = "done"
            /\ UNCHANGED <<messageResponse, tcIndex, finalResponse>>
    /\ UNCHANGED <<isOpenAIAvailable, openai, sessionToken, ongoingInstructions, turn, messages,
                   toolResults, executed, collaboratorCalls>>
    /\ UNCHANGED ragVars
    /\ UNCHANGED tasks
    /\ UNCHANGED routeVars

(***************************************************************************)
(* FinancialAdvisorAgent.processWebhookEvent                               *)
(***************************************************************************)
VoidResponse ==
    [shape |-> "void", content |-> << >>, toolCalls |-> << >>, toolResults |-> << >>,
                                          meetingData |-> NULL]

EventTypes == {"contact_updated"}

\* response.choices[0].message.content of the webhook call: the sentinel, a JSON object
\* with a toolCalls list, a JSON object without one, or a text JSON.parse rejects
WebhookContents ==
    {[kind |-> "NO_ACTION", toolCalls |-> << >>],
     [kind |-> "no_tool_calls", toolCalls |-> << >>],
     [kind |-> "unparsable", toolCalls |-> << >>]}
        \cup {[kind |-> "action", toolCalls |-> calls] : calls \in ToolCallLists(1)}

WebhookCatchRethrows(e) == ThrownOut(e)

\* the catch blocks of processWebhookEvent log what was thrown and the call returns
WebhookCatch(e) == Returned(VoidResponse)

NothingToDoNever(lookup) == FALSE

\* `if (!user?.ongoingInstructions) return`
NothingToDo(lookup) == lookup = NoInstructions

\* processWebhookEvent up to the model call
ProcessWebhookEvent(eventType) ==
    /\ pc = "idle"
    /\ BeginCall
    /\ turn' = [kind |-> "webhook", message |-> << >>, history |-> << >>]
    /\ IF ProviderUnavailable
       THEN /\ outcome' = Returned(VoidResponse)
            /\ pc' = "done"
            /\ messages' = << >>
       ELSE \E lookup \in Lookups :
                IF lookup = "throws" \/ NothingToDo(lookup)
                THEN /\ outcome' = Returned(VoidResponse)
                     /\ pc' = "done"
                     /\ messages' = << >>
                ELSE /\ messages' = <<[role |-> "system", content |-> <<"webhook processor">>],
                                      [role |-> "user", content |-> <<eventType, lookup>>]>>
                     /\ pc' = "wh_model"
                     /\ outcome' = NoOutcome
    /\ UNCHANGED <<isOpenAIAvailable, openai, sessionToken, ongoingInstructions>>
    /\ UNCHANGED ragVars
    /\ UNCHANGED tasks
    /\ UNCHANGED routeVars

\* the model call of processWebhookEvent and the parse of its answer
WebhookModelCall ==
    /\ pc = "wh_model"
    /\ modelRequests' = Append(modelRequests, messages)
    /\ \/ \E reply \in WebhookContents :
            /\ UNCHANGED modelError
            /\ IF reply.kind = "action" /\ reply.toolCalls # << >>
               THEN /\ messageResponse' = ToolReply(<< >>, reply.toolCalls)
                    /\ tcIndex' = 1
                    /\ pc' = "wh_tools"
                    /\ outcome' = NoOutcome
               ELSE /\ outcome' = Returned(VoidResponse)
                    /\ pc' = "done"
                    /\ UNCHANGED <<messageResponse, tcIndex>>
       \/ \E e \in ModelErrors :
            /\ modelError' = e
            /\ outcome' = WebhookCatch(e)
            /\ pc' = "done"
            /\ UNCHANGED <<messageResponse, tcIndex>>
    /\ UNCHANGED <<isOpenAIAvailable, openai, sessionToken, ongoingInstructions, turn, messages,
                   toolResults, executed, collaboratorCalls, finalResponse>>
    /\ UNCHANGED ragVars
    /\ UNCHANGED tasks
    /\ UNCHANGED routeVars

\* one iteration of the loop over action.toolCalls; a throw leaves the loop for the
\* catch around the parse, which logs and returns
WebhookExecuteTool ==
    /\ pc = "wh_tools"
    /\ tcIndex <= Len(messageResponse.tool_calls)
    /\ LET toolCall == messageResponse.tool_calls[tcIndex]
       IN \E exec \in ExecuteToolCall(toolCall) :
            /\ executed' = Append(executed, Attempt(toolCall, exec))
            /\ collaboratorCalls' = collaboratorCalls \o exec.calls
            /\ tasks' = exec.tasks
            /\ IF exec.threw \/ tcIndex = Len(messageResponse.tool_calls)
               THEN /\ pc' = "done"
                    /\ outcome' = IF exec.threw THEN WebhookCatch(exec.error)
                                  ELSE Returned(VoidResponse)
                    /\ UNCHANGED tcIndex
               ELSE /\ tcIndex' = tcIndex + 1
                    /\ UNCHANGED <<pc, outcome>>
    /\ UNCHANGED <<isOpenAIAvailable, openai, sessionToken, ongoingInstructions, turn, messages,
                   modelRequests, messageResponse, toolResults, modelError, finalResponse>>
    /\ UNCHANGED ragVars
    /\ UNCHANGED routeVars

(***************************************************************************)
(* The chat route (POST /api/chat).  A row's createdAt is its position in  *)
(* chatMessages.                                                           *)
(***************************************************************************)
\* the request a route handler is serving, or has served, and its response; window is
\* the conversationHistory read, before the chat table when the request came; for a
\* webhook request, event is the row it stored ("none", "stored", "processed"), pending
\* the users still to process, handled the users whose processWebhookEvent call has
\* returned, failed those of them whose call met a model or tool failure
NoRequest ==
    [kind |-> "none", step |-> "idle", user |-> "none", message |-> << >>,
     conversationId |-> "none", window |-> << >>, instructions |-> "", status |-> 0,
     body |-> "", before |-> << >>, event |-> "none", pending |-> << >>,
     handled |-> << >>, failed |-> {}]

\* take: 20 of the history query
ChatWindow == 20

\* a row of the chat message table
ChatRow(userId, conversationId, role, content) ==
    [userId |-> userId, conversationId |-> conversationId, role |-> role, content |-> content]

\* where: { userId, conversationId }, in createdAt order
ConversationRows(rows, userId, conversationId) ==
    LET InConversation(row) == row.userId = userId /\ row.conversationId = conversationId
    IN SelectSeq(rows, InConversation)

\* prisma.chatMessage.findMany({ where, orderBy: { createdAt: 'asc' }, take: 20 })
FindHistory(rows, userId, conversationId) ==
    LET conversation == ConversationRows(rows, userId, conversationId)
    IN SubSeq(conversation, 1, Min(ChatWindow, Len(conversation)))

\* msg.role.toLowerCase()
RoleToLowerCase(role) ==
    IF role = "USER" THEN "user" ELSE IF role = "ASSISTANT" THEN "assistant" ELSE role

\* conversationHistory.map(msg => ({ role: msg.role.toLowerCase(), content: msg.content }))
HistoryTurns(rows) ==
    [i \in DOMAIN rows |-> [role |-> RoleToLowerCase(rows[i].role), content |-> rows[i].content]]

\* a conversation of n stored turns, the user's and the assistant's in alternation;
\* the content of a turn is its number
StoredConversation(n) ==
    [i \in 1..n |-> ChatRow("u1", "conv1", IF i % 2 = 1 THEN "USER" ELSE "ASSISTANT", <<i>>)]

\* the chat tables a request can find: the conversation, between a row of another user
\* and a row of another conversation
StoredChats ==
    {<<ChatRow("u2", "conv1", "USER", <<"theirs">>)>>
        \o StoredConversation(n)
        \o <<ChatRow("u1", "conv2", "USER", <<"other">>)>> : n \in {0, 2, MaxTurns}}

\* session?.user: the chat requests of the model come from the agent's user or from
\* nobody
ChatSessions == {"none", AgentUser}

\* the message of the request body; << >> is a missing or empty one
ChatBodies == { << >>, <<"A","b","b">> }

\* the conversationId of the request body; "none" when it is not given
ConversationIds == {"none", "conv1"}

\* conversationId || `conv_${Date.now()}_...`
CurrentConversationId(conversationId) ==
    IF conversationId = "none" THEN "conv_new" ELSE conversationId

\* the response of a handler that has returned
Respond(kind, user, status, body) ==
    [NoRequest EXCEPT !.kind = kind, !.step = "done", !.user = user, !.status = status,
                      !.body = body]

RouteFree == pc = "idle" /\ route.step \in {"idle", "done"}

\* POST /api/chat up to the processMessage call: the session and body checks, the user
\* row, the history query and the construction of the agent; fail names the query that
\* throws
ChatPost(session, token, message, conversationId) ==
    /\ RouteFree
    /\ \E fail \in {"none", "user", "history"} :
          IF session = "none"
          THEN /\ route' = Respond("chat", session, 401, "Unauthorized")
               /\ UNCHANGED <<userRows, sessionToken>>
          ELSE IF message = << >>
          THEN /\ route' = Respond("chat", session, 400, "Message is required")
               /\ UNCHANGED <<userRows, sessionToken>>
          ELSE IF fail = "user"
          THEN /\ route' = Respond("chat", session, 500, "Internal server error")
               /\ UNCHANGED <<userRows, sessionToken>>
          ELSE IF fail = "history"
          THEN /\ route' = Respond("chat", session, 500, "Internal server error")
               /\ userRows' = userRows \cup {session}
               /\ UNCHANGED sessionToken
          ELSE /\ userRows' = userRows \cup {session}
               /\ sessionToken' = token
               /\ route' =
                    [NoRequest EXCEPT
                        !.kind = "chat", !.step = "agent", !.user = session,
                        !.message = message,
                        !.conversationId = CurrentConversationId(conversationId),
                        !.window = HistoryTurns(FindHistory(chatMessages, session,
                                        CurrentConversationId(conversationId))),
                        !.before = chatMessages]
    /\ UNCHANGED <<isOpenAIAvailable, openai, ongoingInstructions, pc, turn, messages,
                   modelRequests, messageResponse, toolResults, tcIndex, executed,
                   collaboratorCalls, modelError, finalResponse, outcome>>
    /\ UNCHANGED <<chatMessages, lastUpdate>>
    /\ UNCHANGED ragVars
    /\ UNCHANGED tasks

PersistsAlways(result) == TRUE

\* the lines after `await agent.processMessage(...)` run when it returned; what it
\* throws goes to the catch of the handler
Persists(result) == result.status = "returned"

\* the user turn: prisma.chatMessage.create({ role: 'USER', content: message })
ChatSaveUser ==
    /\ route.kind = "chat"
    /\ route.step = "agent"
    /\ pc = "done"
    /\ IF ~Persists(outcome)
       THEN /\ route' = [route EXCEPT !.step = "done", !.status = 500,
                                      !.body = "Internal server error"]
            /\ UNCHANGED chatMessages
       ELSE \E created \in BOOLEAN :
                IF created
                THEN /\ chatMessages' =
                            Append(chatMessages,
                                   ChatRow(route.user, route.conversationId, "USER",
                                           route.message))
                     /\ route' = [route EXCEPT !.step = "save_assistant"]
                ELSE /\ route' = [route EXCEPT !.step = "done", !.status = 500,
                                               !.body = "Internal server error"]
                     /\ UNCHANGED chatMessages
    /\ UNCHANGED <<userRows, lastUpdate>>
    /\ UNCHANGED agentVars
    /\ UNCHANGED ragVars
    /\ UNCHANGED tasks

\* the assistant turn: create({ role: 'ASSISTANT', content: response.content || '' }),
\* and the response of the route
ChatSaveAssistant ==
    /\ route.kind = "chat"
    /\ route.step = "save_assistant"
    /\ \E created \in BOOLEAN :
          IF created
          THEN /\ chatMessages' =
                      Append(chatMessages,
                             ChatRow(route.user, route.conversationId, "ASSISTANT",
                                     outcome.response.content))
               /\ route' = [route EXCEPT !.step = "done", !.status = 200, !.body = "content"]
          ELSE /\ route' = [route EXCEPT !.step = "done", !.status = 500,
                                         !.body = "Internal server error"]
               /\ UNCHANGED chatMessages
    /\ UNCHANGED <<userRows, lastUpdate>>
    /\ UNCHANGED agentVars
    /\ UNCHANGED ragVars
    /\ UNCHANGED tasks

(***************************************************************************)
(* The instructions route (POST and GET /api/instructions).               *)
(***************************************************************************)
\* session?.user of the requests: a user, or nobody
Sessions == Users \cup {"none"}

\* the instructions of the request body; "" is a missing or empty one
PostedInstructions == {"", "rule", "other"}

UpdateAllUsers(table, id, instructions) == [u \in DOMAIN table |-> instructions]

\* prisma.user.update({ where: { id }, data: { ongoingInstructions: instructions } })
UpdateUser(table, id, instructions) == [table EXCEPT ![id] = instructions]

\* POST /api/instructions; fail names the query that throws
InstructionsPost(session, instructions) ==
    /\ RouteFree
    /\ \E fail \in {"none", "lookup", "update"} :
          IF session = "none"
          THEN /\ route' = Respond("instructions_post", session, 401, "Unauthorized")
               /\ UNCHANGED <<ongoingInstructions, lastUpdate>>
          ELSE IF instructions = ""
          THEN /\ route' = Respond("instructions_post", session, 400,
                                    "Instructions are required")
               /\ UNCHANGED <<ongoingInstructions, lastUpdate>>
          ELSE IF fail = "lookup"
          THEN /\ route' = Respond("instructions_post", session, 500,
                                    "Failed to update instructions")
               /\ UNCHANGED <<ongoingInstructions, lastUpdate>>
          ELSE IF session \notin userRows
          THEN /\ route' = Respond("instructions_post", session, 404, "User not found")
               /\ UNCHANGED <<ongoingInstructions, lastUpdate>>
          ELSE IF fail = "update"
          THEN /\ route' = Respond("instructions_post", session, 500,
                                    "Failed to update instructions")
               /\ UNCHANGED <<ongoingInstructions, lastUpdate>>
          ELSE /\ ongoingInstructions' =
                      UpdateUser(ongoingInstructions, session, instructions)
               /\ lastUpdate' = [lastUpdate EXCEPT ![session] = instructions]
               /\ route' = [Respond("instructions_post", session, 200,
                                     "Instructions updated successfully")
                                EXCEPT !.instructions = instructions]
    /\ UNCHANGED <<isOpenAIAvailable, openai, sessionToken, pc, turn, messages,
                   modelRequests, messageResponse, toolResults, tcIndex, executed,
                   collaboratorCalls, modelError, finalResponse, outcome>>
    /\ UNCHANGED <<userRows, chatMessages>>
    /\ UNCHANGED ragVars
    /\ UNCHANGED tasks

\* user.ongoingInstructions || ''
InstructionsBody(value) == IF value = NoInstructions THEN "" ELSE value

\* GET /api/instructions
InstructionsGet(session) ==
    /\ RouteFree
    /\ \E fail \in {"none", "lookup"} :
          IF session = "none"
          THEN route' = Respond("instructions_get", session, 401, "Unauthorized")
          ELSE IF fail = "lookup"
          THEN route' = Respond("instructions_get", session, 500,
                                "Failed to fetch instructions")
          ELSE IF session \notin userRows
          THEN route' = Respond("instructions_get", session, 404, "User not found")
          ELSE route' = Respond("instructions_get", session, 200,
                                InstructionsBody(ongoingInstructions[session]))
    /\ UNCHANGED <<userRows, chatMessages, lastUpdate>>
    /\ UNCHANGED agentVars
    /\ UNCHANGED ragVars
    /\ UNCHANGED tasks

(***************************************************************************)
(* The HubSpot webhook route (POST).                                       *)
(***************************************************************************)
\* prisma.user.findMany({ where: { ongoingInstructions: { not: null } } })
UsersWithInstructions == {u \in Users : ongoingInstructions[u] # NoInstructions}

\* the orders the rows of a query without orderBy can come in
Orders(S) == SeqsNoDup(S, Cardinality(S))

\* POST up to the loop: the body is parsed, the signature header is checked, the event
\* is stored and the users are read; fail names the query that throws
WebhookPost(parses, signed) ==
    /\ RouteFree
    /\ \E fail \in {"none", "create", "users"} :
          IF ~parses
          THEN route' = Respond("webhook", "none", 500, "Webhook processing failed")
          ELSE IF ~signed
          THEN route' = Respond("webhook", "none", 401, "Missing signature")
          ELSE IF fail = "create"
          THEN route' = Respond("webhook", "none", 500, "Webhook processing failed")
          ELSE IF fail = "users"
          THEN route' = [Respond("webhook", "none", 500, "Webhook processing failed")
                            EXCEPT !.event = "stored"]
          ELSE \E order \in Orders(UsersWithInstructions) :
                  route' = [NoRequest EXCEPT !.kind = "webhook", !.step = "loop",
                                             !.event = "stored", !.pending = order]
    /\ UNCHANGED <<userRows, chatMessages, lastUpdate>>
    /\ UNCHANGED agentVars
    /\ UNCHANGED ragVars
    /\ UNCHANGED tasks

\* `for (const user of users)`: new FinancialAdvisorAgent(user.id) for the next user
WebhookNextUser ==
    /\ route.kind = "webhook"
    /\ route.step = "loop"
    /\ route.pending # << >>
    /\ route' = [route EXCEPT !.user = Head(route.pending),
                              !.pending = Tail(route.pending), !.step = "agent"]
    /\ pc' = "idle"
    /\ sessionToken' = "none"
    /\ UNCHANGED <<isOpenAIAvailable, openai, ongoingInstructions, turn, messages,
                   modelRequests, messageResponse, toolResults, tcIndex, executed,
                   collaboratorCalls, modelError, finalResponse, outcome>>
    /\ UNCHANGED <<userRows, chatMessages, lastUpdate>>
    /\ UNCHANGED ragVars
    /\ UNCHANGED tasks

\* the processWebhookEvent call of the current user met a model or tool failure
CallFailed == modelError # NoError \/ \E a \in 1..Len(executed) : executed[a].threw

\* `await agent.processWebhookEvent(...)` has settled: the loop goes on when it
\* returned, and what it throws goes to the catch of the handler
WebhookUserSettled ==
    /\ route.kind = "webhook"
    /\ route.step = "agent"
    /\ pc = "done"
    /\ IF outcome.status = "thrown"
       THEN route' = [route EXCEPT !.step = "done", !.status = 500,
                                   !.body = "Webhook processing failed"]
       ELSE route' = [route EXCEPT !.step = "loop",
                                   !.handled = Append(@, route.user),
                                   !.failed = IF CallFailed THEN @ \cup {route.user} ELSE @]
    /\ UNCHANGED <<userRows, chatMessages, lastUpdate>>
    /\ UNCHANGED agentVars
    /\ UNCHANGED ragVars
    /\ UNCHANGED tasks

\* after the loop: webhookEvent.update({ processed: true }) and the response
WebhookMarkProcessed ==
    /\ route.kind = "webhook"
    /\ route.step = "loop"
    /\ route.pending = << >>
    /\ \E updated \in BOOLEAN :
          IF updated
          THEN route' = [route EXCEPT !.step = "done", !.status = 200, !.body = "success",
                                      !.event = "processed"]
          ELSE route' = [route EXCEPT !.step = "done", !.status = 500,
                                      !.body = "Webhook processing failed"]
    /\ UNCHANGED <<userRows, chatMessages, lastUpdate>>
    /\ UNCHANGED agentVars
    /\ UNCHANGED ragVars
    /\ UNCHANGED tasks

(***************************************************************************)
(* Specifications.                                                         *)
(***************************************************************************)
AgentIdle ==
    /\ pc = "idle"
    /\ turn = [kind |-> "none", message |-> << >>, history |-> << >>]
    /\ messages = << >>
    /\ modelRequests = << >>
    /\ messageResponse = PlainReply(<< >>)
    /\ modelError = NoError
    /\ finalResponse = PlainReply(<< >>)
    /\ toolResults = << >>
    /\ tcIndex = 0
    /\ executed = << >>
    /\ collaboratorCalls = << >>
    /\ outcome = NoOutcome

\* no request has been made; every user has a row and no chat turn is stored
RoutesIdle ==
    /\ tasks = StoredTasks
    /\ userRows = Users
    /\ chatMessages = << >>
    /\ route = NoRequest
    /\ lastUpdate = [u \in Users |-> "never"]

\* the agent after its constructor: the client is built, or building it threw
AgentConstructed ==
    \/ isOpenAIAvailable = TRUE /\ openai = "client"
    \/ isOpenAIAvailable = FALSE /\ openai = "null"

\* a corpus two earlier imports left: rows of both users, none with a vector
ImportedEmails ==
    {EmailRow("u1", GmailMessage("m1"), NULL), EmailRow("u2", GmailMessage("m3"), NULL)}

ImportedContacts == {ContactRow("u1", HubSpotContact("c1", 1), NULL, 0)}

\* the agent serving chat turns and webhook events over a stored corpus; the embeddings
\* client is built, and a retrieval takes the lexical path when a call of it fails
Init ==
    /\ emailStore = ImportedEmails
    /\ contactStore = ImportedContacts
    /\ clock = 1
    /\ ragAvailable = TRUE
    /\ runs = [r \in RunIds |-> IdleRun]
    /\ seen = {<<"email", "m1">>, <<"email", "m3">>, <<"contact", "c1">>}
    /\ search = NoSearch
    /\ AgentConstructed
    /\ sessionToken \in SessionTokens
    /\ \E value \in InstructionValues :
          ongoingInstructions = [NoUserInstructions EXCEPT ![AgentUser] = value]
    /\ AgentIdle
    /\ RoutesIdle

Next ==
    \/ \E message \in AgentMessages, history \in Histories : ProcessMessage(message, history)
    \/ FirstModelCall
    \/ ExecuteTool
    \/ SecondModelCall
    \/ \E eventType \in EventTypes : ProcessWebhookEvent(eventType)
    \/ WebhookModelCall
    \/ WebhookExecuteTool

Spec == Init /\ [][Next]_vars

\* the retrieval service: imports run one after another; a behaviour ends with one
\* searchRelevantContext or getContextForQuestion call over the corpus the imports
\* have stored
InitRag ==
    /\ emailStore = {}
    /\ contactStore = {}
    /\ clock = 0
    /\ ragAvailable \in BOOLEAN
    /\ runs = [r \in RunIds |-> IdleRun]
    /\ seen = {}
    /\ search = NoSearch
    /\ isOpenAIAvailable = TRUE
    /\ openai = "client"
    /\ sessionToken = "none"
    /\ ongoingInstructions = NoUserInstructions
    /\ AgentIdle
    /\ RoutesIdle

NoRunActive == \A r \in RunIds : ~RunActive(r)

NextRag ==
    \/ \E u \in Users : ~search.called /\ NoRunActive /\ ImportEmailsStart("r1", u)
    \/ \E u \in Users : ~search.called /\ NoRunActive /\ ImportHubSpotContactsStart("r1", u)
    \/ ImportCheck("r1")
    \/ ImportCreate("r1")
    \/ \E u \in Users, query \in Queries, limit \in 1..MaxLimit :
            ~search.called /\ NoRunActive /\ Search(u, query, limit)
    \/ \E u \in Users, question \in Queries :
            ~search.called /\ NoRunActive /\ GetContext(u, question)

SpecRag == InitRag /\ [][NextRag]_vars

\* the routes: instruction requests of both users one after another, then one chat
\* request of the agent's user or one webhook event for them
InitRoutes ==
    /\ emailStore = ImportedEmails
    /\ contactStore = ImportedContacts
    /\ clock = 1
    /\ ragAvailable = TRUE
    /\ runs = [r \in RunIds |-> IdleRun]
    /\ seen = {<<"email", "m1">>, <<"email", "m3">>, <<"contact", "c1">>}
    /\ search = NoSearch
    /\ AgentConstructed
    /\ sessionToken = "none"
    /\ ongoingInstructions = NoUserInstructions
    /\ AgentIdle
    /\ userRows \in {Users, Users \ {AgentUser}}
    /\ chatMessages \in StoredChats
    /\ route = NoRequest
    /\ lastUpdate = [u \in Users |-> "never"]
    /\ tasks = StoredTasks

\* the tool_calls of the model's replies while the routes are served: none, one
\* calendar search, or one create_task
RouteToolCalls ==
    {<< >>,
     <<[id |-> <<1, 1>>, name |-> "search_calendar_events", arguments |-> "json",
        parsedArgs |-> NoArgs]>>,
     <<[id |-> <<1, 1>>, name |-> "create_task", arguments |-> "json",
        parsedArgs |-> NoArgs]>>}

RouteReply(reply) == reply.tool_calls \in RouteToolCalls

\* the replies of the first model call of a chat request
RouteReplies ==
    {reply \in Replies : RouteReply(reply)}
        \cup {ToolReply(<< >>, calls) : calls \in RouteToolCalls \ {<< >>}}

NextRoutes ==
    \/ \E session \in ChatSessions, token \in SessionTokens, message \in ChatBodies,
          conversationId \in ConversationIds :
            ChatPost(session, token, message, conversationId)
    \/ route.kind = "chat" /\ route.step = "agent"
            /\ ProcessMessage(route.message, route.window)
    \/ route.kind = "chat" /\ FirstModelCallOf(RouteReplies)
    \/ route.kind = "chat" /\ ExecuteTool
    \/ route.kind = "chat" /\ SecondModelCall
    \/ ChatSaveUser
    \/ ChatSaveAssistant
    \/ \E session \in Sessions, instructions \in PostedInstructions :
            InstructionsPost(session, instructions)
    \/ \E session \in Sessions : InstructionsGet(session)
    \/ \E eventType \in EventTypes : route.kind # "chat" /\ ProcessWebhookEvent(eventType)
    \/ WebhookModelCall /\ RouteReply(messageResponse')
    \/ WebhookExecuteTool

SpecRoutes == InitRoutes /\ [][NextRoutes]_vars

\* one processMessage call, without a session token, stored instructions or earlier
\* turns, whose awaited calls all return or throw: a step that is enabled is eventually
\* taken
InitTurn ==
    /\ Init
    /\ sessionToken = "none"
    /\ ongoingInstructions = NoUserInstructions

NextTurn ==
    \/ \E message \in AgentMessages : ProcessMessage(message, << >>)
    \/ FirstModelCall
    \/ ExecuteTool
    \/ SecondModelCall

SpecTurn == InitTurn /\ [][NextTurn]_vars /\ WF_vars(NextTurn)

\* two import requests served at the same time: each run is one importEmails call, and
\* the awaits of the two calls interleave
NextImports ==
    \/ \E r \in RunIds, u \in Users : runs[r].status = "idle" /\ ImportEmailsStart(r, u)
    \/ \E r \in RunIds : ImportCheck(r)
    \/ \E r \in RunIds : ImportCreate(r)

SpecImports == InitRag /\ [][NextImports]_vars

\* the webhook route: webhook requests over users that do or do not hold instructions
InitWebhook ==
    /\ emailStore = ImportedEmails
    /\ contactStore = ImportedContacts
    /\ clock = 1
    /\ ragAvailable = TRUE
    /\ runs = [r \in RunIds |-> IdleRun]
    /\ seen = {<<"email", "m1">>, <<"email", "m3">>, <<"contact", "c1">>}
    /\ search = NoSearch
    /\ AgentConstructed
    /\ sessionToken = "none"
    /\ ongoingInstructions \in [Users -> {NoInstructions, "rule"}]
    /\ AgentIdle
    /\ RoutesIdle

NextWebhook ==
    \/ \E parses \in BOOLEAN, signed \in BOOLEAN : WebhookPost(parses, signed)
    \/ WebhookNextUser
    \/ \E eventType \in EventTypes :
            route.kind = "webhook" /\ route.step = "agent" /\ ProcessWebhookEvent(eventType)
    \/ route.kind = "webhook" /\ WebhookModelCall /\ RouteReply(messageResponse')
    \/ route.kind = "webhook" /\ WebhookExecuteTool
    \/ WebhookUserSettled
    \/ WebhookMarkProcessed

SpecWebhook == InitWebhook /\ [][NextWebhook]_vars

\* the task tools: one chat turn of the agent's user whose first reply asks for task
\* invocations, over the stored task rows
TaskInvocations ==
    {<<"create_task", NoArgs>>}
        \cup {<<"update_task", [taskId |-> t, status |-> st]>> :
                    t \in 1..Len(StoredTasks), st \in TaskStatuses}

TaskCallLists ==
    UNION {{[i \in 1..n |-> [id |-> <<1, i>>, name |-> f[i][1], arguments |-> "json",
                             parsedArgs |-> f[i][2]]] :
                f \in [1..n -> TaskInvocations]} : n \in 1..MaxTaskCalls}

TaskReplies == {ToolReply(<< >>, calls) : calls \in TaskCallLists}

InitTasks ==
    /\ Init
    /\ isOpenAIAvailable
    /\ sessionToken = "none"
    /\ ongoingInstructions = NoUserInstructions

NextTasks ==
    \/ \E message \in AgentMessages : ProcessMessage(message, << >>)
    \/ FirstModelCallOf(TaskReplies)
    \/ ExecuteTool
    \/ SecondModelCall

SpecTasks == InitTasks /\ [][NextTasks]_vars

(***************************************************************************)
(* Properties of the message orchestrator (specification Spec).            *)
(***************************************************************************)
UnavailableFlagged == ~isOpenAIAvailable \/ openai = "null"

\* C1: when the first reply carries N tool invocations, the tool loop collects one
\* outcome per invocation, the i-th outcome carrying the id of the i-th invocation,
\* whatever mix of invocations returns or throws, and the response returned from the
\* tool branch carries exactly these N outcomes.
C1_OneOutcomePerInvocation ==
    turn.kind = "message" =>
        /\ pc = "tools" =>
             /\ Len(toolResults) = Len(executed)
             /\ Len(toolResults) = tcIndex - 1
             /\ \A i \in DOMAIN toolResults :
                    toolResults[i].tool_call_id = messageResponse.tool_calls[i].id
        /\ (outcome.status = "returned" /\ outcome.response.shape = "tools") =>
             LET calls == messageResponse.tool_calls
                 res == outcome.response.toolResults
             IN /\ Len(res) = Len(calls)
                /\ \A i \in DOMAIN res : res[i].tool_call_id = calls[i].id
                /\ \A i \in DOMAIN res : res[i].tool_call_id = <<1, i>>
        /\ (outcome.status = "returned" /\ messageResponse.has_tool_calls) =>
             outcome.response.shape \in {"tools", "fallback"}

\* a turn returned two outcomes, the first for a throwing invocation, the second for
\* one that returned
C1_Witness ==
    /\ outcome.status = "returned"
    /\ outcome.response.shape = "tools"
    /\ Len(outcome.response.toolResults) = 2
    /\ outcome.response.toolResults[1].content[1] = "error"
    /\ outcome.response.toolResults[2].content[1] = "result"

\* C2: in a processMessage turn the model is called at most twice; every tool
\* execution happens after the first call and before the second, executes an
\* invocation of the first reply, and the invocations of the second reply are never
\* executed.
C2_SingleToolRound ==
    turn.kind = "message" =>
        /\ Len(modelRequests) <= 2
        /\ \A i \in DOMAIN executed :
              /\ executed[i].after = 1
              /\ executed[i].id = <<1, i>>
        /\ Len(modelRequests) = 2 => pc = "done"

\* the second reply asked for another invocation after a first round was executed
C2_Witness ==
    /\ turn.kind = "message"
    /\ pc = "done"
    /\ Len(modelRequests) = 2
    /\ finalResponse.has_tool_calls
    /\ Len(finalResponse.tool_calls) > 0
    /\ Len(executed) > 0

\* C3: with the completion provider flagged unavailable, processMessage makes no model
\* call, executes no tool, does not throw and returns the fallback response with a
\* non-empty text, also when the retrieval or the instructions lookup fails.
C3_UnavailableProviderFallback ==
    (turn.kind = "message" /\ UnavailableFlagged) =>
        /\ pc = "done"
        /\ outcome.status = "returned"
        /\ outcome.response.shape = "fallback"
        /\ Len(outcome.response.content) > 0
        /\ Len(modelRequests) = 0
        /\ Len(executed) = 0
        /\ Len(collaboratorCalls) = 0

\* the provider is unavailable and the instructions lookup threw
C3_Witness ==
    /\ turn.kind = "message"
    /\ UnavailableFlagged
    /\ outcome.status = "returned"
    /\ outcome.response.content[1] = ApologyText[1]

\* C8: a throwing invocation does not stop the loop: every invocation of the first
\* reply is attempted, a failed one yields an outcome with the error's message, and the
\* second model call receives the original turns, the assistant's tool-call message and
\* all N outcomes in invocation order.
C8_FailureDoesNotAbortLoop ==
    turn.kind = "message" =>
        /\ \A i \in DOMAIN executed :
              /\ i <= Len(toolResults)
              /\ executed[i].threw =>
                    toolResults[i].content = <<"error", executed[i].error.message>>
              /\ ~executed[i].threw => toolResults[i].content[1] = "result"
        /\ Len(modelRequests) = 2 =>
              LET calls == messageResponse.tool_calls
                  N == Len(calls)
                  req == modelRequests[2]
                  base == Len(messages)
              IN /\ Len(executed) = N
                 /\ \A i \in 1..N : executed[i].id = calls[i].id
                 /\ Len(toolResults) = N
                 /\ Len(req) = base + 1 + N
                 /\ \A i \in 1..base : req[i] = messages[i]
                 /\ req[base + 1] = messageResponse
                 /\ \A i \in 1..N : req[base + 1 + i] = toolResults[i]

\* the first invocation threw, the second was executed and returned, and the second
\* model call was made
C8_Witness ==
    /\ turn.kind = "message"
    /\ Len(modelRequests) = 2
    /\ Len(executed) = 2
    /\ executed[1].threw
    /\ ~executed[2].threw

\* C9: processWebhookEvent for a user without standing instructions, or with the
\* model unavailable, calls neither the model nor any tool or collaborator, and returns.
C9_WebhookNoOp ==
    (turn.kind = "webhook"
        /\ (UnavailableFlagged \/ ongoingInstructions[AgentUser] = NoInstructions)) =>
        /\ pc = "done"
        /\ outcome = Returned(VoidResponse)
        /\ Len(modelRequests) = 0
        /\ Len(executed) = 0
        /\ Len(collaboratorCalls) = 0

\* a webhook event was processed with the model available for a user without
\* instructions
C9_Witness ==
    /\ turn.kind = "webhook"
    /\ ~UnavailableFlagged
    /\ ongoingInstructions[AgentUser] = NoInstructions
    /\ pc = "done"

\* C10: when the first model call fails, an error with the region code makes
\* processMessage return the fallback response; any other error is propagated to the
\* caller and no response is returned.
C10_FirstCallFailure ==
    (turn.kind = "message" /\ Len(modelRequests) = 1 /\ modelError # NoError) =>
        /\ pc = "done"
        /\ IF modelError.code = RegionCode
           THEN outcome.status = "returned" /\ outcome.response.shape = "fallback"
           ELSE outcome = ThrownOut(modelError)

\* the first model call failed with the region error and the fallback was returned
C10_Witness ==
    /\ turn.kind = "message"
    /\ Len(modelRequests) = 1
    /\ modelError.code = RegionCode
    /\ outcome.response.shape = "fallback"

\* C11: a processMessage turn that returns the fallback response executed no tool
\* invocation, and the model is not called once the fallback is entered, also when the
\* fallback is entered because a model call failed with the region error.
C11_FallbackTurnRunsNoTool ==
    (turn.kind = "message" /\ outcome.status = "returned"
        /\ outcome.response.shape = "fallback") =>
        /\ pc = "done"
        /\ Len(executed) = 0
        /\ Len(collaboratorCalls) = 0

\* the first model call of the turn answered with a reply
FirstReplyReceived ==
    /\ turn.kind = "message"
    /\ Len(modelRequests) >= 1
    /\ ~(Len(modelRequests) = 1 /\ modelError # NoError)

\* C12: when the first reply carries zero tool invocations (no tool-call list, or an
\* empty one) the turn finalizes directly: the model is called exactly once, no tool is
\* executed and the returned text is the text of the first reply.
C12_ZeroInvocationsFinalize ==
    (FirstReplyReceived /\ Len(messageResponse.tool_calls) = 0) =>
        /\ pc = "done"
        /\ Len(modelRequests) = 1
        /\ Len(executed) = 0
        /\ outcome = Returned([shape |-> "plain", content |-> messageResponse.content,
                               toolCalls |-> << >>, toolResults |-> << >>,
                               meetingData |-> NULL])

\* the number of times the stored token was tried in a list of credentials tried
StoredTries(tokens) == Cardinality({i \in DOMAIN tokens : tokens[i] = "stored"})

\* C13: a search_emails or send_email call of an agent holding a per-request token tries
\* the per-request token first and the stored token at most once: when the stored token
\* fails too, the call fails without a second try of the stored token.
C13_StoredTokenTriedOnce ==
    sessionToken # "none" =>
        \A i \in DOMAIN executed :
            executed[i].tokens # << >> =>
                /\ executed[i].tokens[1] = "session"
                /\ StoredTries(executed[i].tokens) <= 1

\* the invocation names no declared tool, or its arguments do not parse
Undispatchable(toolCall) ==
    toolCall.name \notin DeclaredTools \/ toolCall.arguments = "malformed"

\* C14: in the chat tool loop an invocation with an undeclared tool name or with
\* arguments that do not parse gets an error outcome carrying the error's message and
\* calls no collaborator; processMessage does not throw because of it and the
\* invocations after it are executed.
C14_UndispatchableInvocation ==
    turn.kind = "message" =>
        /\ \A i \in DOMAIN executed :
              Undispatchable(messageResponse.tool_calls[i]) =>
                  /\ executed[i].threw
                  /\ executed[i].calls = << >>
                  /\ executed[i].tokens = << >>
                  /\ executed[i].error.message \in {"Unknown tool", "Unexpected token in JSON"}
                  /\ toolResults[i].tool_call_id = messageResponse.tool_calls[i].id
                  /\ toolResults[i].content = <<"error", executed[i].error.message>>
        /\ pc = "tools" => tcIndex = Len(executed) + 1
        /\ Len(modelRequests) = 2 => Len(executed) = Len(messageResponse.tool_calls)
        /\ outcome.status = "thrown" => outcome.error \in ModelErrors \cup {DbError}

\* an invocation of an undeclared tool failed and the invocation after it was executed
\* and returned
C14_Witness ==
    /\ turn.kind = "message"
    /\ outcome.status = "returned"
    /\ Len(executed) = 2
    /\ messageResponse.tool_calls[1].name \notin DeclaredTools
    /\ executed[1].threw
    /\ ~executed[2].threw
    /\ Len(collaboratorCalls) = 1

\* C15: when the model answers a webhook event with an action of k tool invocations,
\* all k are executed through executeToolCall, in order; an invocation that fails
\* (an undeclared tool name included) does not keep the later ones from being executed.
C15_WebhookExecutesAll ==
    (turn.kind = "webhook" /\ pc = "done" /\ messageResponse.has_tool_calls) =>
        /\ Len(executed) = Len(messageResponse.tool_calls)
        /\ \A i \in DOMAIN executed : executed[i].id = messageResponse.tool_calls[i].id

(***************************************************************************)
(* Properties of the retrieval service (specification SpecRag).            *)
(***************************************************************************)
\* C4: searchRelevantContext never raises: whatever is available or fails it returns
\* a pair of lists, and when a query of the text search fails both lists are empty.
C4_RetrievalNeverRaises ==
    search.called =>
        /\ ~search.result.threw
        /\ search.lexFailed =>
              /\ Len(search.result.emails) = 0
              /\ Len(search.result.contacts) = 0

\* the similarity search failed, then the text search failed, over a corpus holding a
\* row of the user that matches the query
C4_Witness ==
    /\ search.called
    /\ ragAvailable
    /\ search.lexFailed
    /\ \E row \in emailStore :
          row.userId = search.userId /\ EmailMatches(row, SearchTerms(search.query))

\* C5: on the similarity path no returned hit is an item stored without an embedding
\* vector.
C5_SimilarityExcludesVectorless ==
    (search.called /\ search.result.path = "similarity") =>
        /\ \A i \in DOMAIN search.result.emails :
              search.result.emails[i].row.embedding # NULL
        /\ \A i \in DOMAIN search.result.contacts :
              search.result.contacts[i].row.embedding # NULL

\* C6: on the lexical path every hit has score 0 and matches a query token longer than
\* two characters in a searched field, and each list is most-recent-first with at most
\* `limit` entries.
C6_LexicalPath ==
    (search.called /\ search.lexical) =>
        LET es == search.result.emails
            cs == search.result.contacts
            tokens == Split(ToLowerCase(search.query))
            Hits(field) ==
                \E k \in DOMAIN tokens :
                    Len(tokens[k]) > 2 /\ ContainsInsensitive(field, tokens[k])
        IN /\ Len(es) <= search.limit
           /\ Len(cs) <= search.limit
           /\ \A i \in DOMAIN es :
                /\ es[i].score = <<0>>
                /\ es[i].row \in emailStore
                /\ Hits(es[i].row.subject) \/ Hits(es[i].row.body) \/ Hits(es[i].row.from)
           /\ \A i \in DOMAIN cs :
                /\ cs[i].score = <<0>>
                /\ cs[i].row \in contactStore
                /\ \/ Hits(cs[i].row.firstName) \/ Hits(cs[i].row.lastName)
                   \/ Hits(cs[i].row.email) \/ Hits(cs[i].row.company)
                   \/ Hits(cs[i].row.notes)
           /\ \A i, j \in DOMAIN es : i < j => es[i].row.date >= es[j].row.date
           /\ \A i, j \in DOMAIN cs : i < j => cs[i].row.createdAt >= cs[j].row.createdAt
           /\ \A row \in emailStore :
                (/\ row.userId = search.userId
                 /\ Hits(row.subject) \/ Hits(row.body) \/ Hits(row.from)
                 /\ ~search.lexFailed
                 /\ \A i \in DOMAIN es : es[i].row # row)
                    => \A i \in DOMAIN es : es[i].row.date >= row.date

\* the text search returned two emails of different dates, the newer one first
C6_Witness ==
    /\ search.called
    /\ search.lexical
    /\ Len(search.result.emails) = 2
    /\ search.result.emails[1].row.date > search.result.emails[2].row.date

C7_StoredOnce ==
    /\ \A p \in seen : Cardinality(Existing(p[1], p[2])) = 1
    /\ \A id \in MsgIds : Cardinality(Existing("email", id)) <= 1
    /\ \A id \in ContactIds : Cardinality(Existing("contact", id)) <= 1
    /\ \A r \in RunIds :
          runs[r].status = "create" =>
              Existing(runs[r].kind, runs[r].items[runs[r].idx].id) = {}

C7_RowsKept ==
    /\ emailStore \subseteq emailStore'
    /\ contactStore \subseteq contactStore'

\* C7: after imports run one after another, every external id a run has gone through
\* has exactly one stored item; for an id that is already stored no create is attempted
\* and the stored item stays as it is.
C7_IdempotentImport == [](C7_StoredOnce) /\ [][C7_RowsKept]_vars

\* a contact import has skipped c1, stored earlier with another company than the one
\* the CRM lists now
C7_Witness ==
    /\ runs["r1"].status = "check"
    /\ runs["r1"].kind = "contact"
    /\ runs["r1"].idx = 2
    /\ runs["r1"].items[1].id = "c1"
    /\ \E row \in contactStore :
          /\ row.contactId = "c1"
          /\ row.company # runs["r1"].items[1].properties.company

\* a distance that is missing sorts after every distance
Ascending(first, second) == second # NULL => (first # NULL /\ first[1] <= second[1])

\* C16: on the similarity path each corpus list is in ascending order of the distance
\* between the query vector and the item's vector and has at most `limit` entries;
\* getContextForQuestion searches with limit 10 and lists every message hit before
\* every contact hit.
C16_SimilarityOrder ==
    (search.called /\ search.result.path = "similarity") =>
        LET es == search.result.emails
            cs == search.result.contacts
            q == EmbedQuery(search.query)
        IN /\ Len(es) <= search.limit
           /\ Len(cs) <= search.limit
           /\ \A i \in DOMAIN es :
                /\ es[i].row \in emailStore
                /\ es[i].score = Distance(es[i].row.embedding, q)
           /\ \A i \in DOMAIN cs :
                /\ cs[i].row \in contactStore
                /\ cs[i].score = Distance(cs[i].row.embedding, q)
           /\ \A i, j \in DOMAIN es : i < j => Ascending(es[i].score, es[j].score)
           /\ \A i, j \in DOMAIN cs : i < j => Ascending(cs[i].score, cs[j].score)
           /\ search.caller = "getContextForQuestion" =>
                /\ search.limit = 10
                /\ Len(search.context) = Len(es) + Len(cs)
                /\ \A i \in DOMAIN es : search.context[i] = <<"Email", es[i].content>>
                /\ \A i \in DOMAIN cs :
                      search.context[Len(es) + i] = <<"Contact", cs[i].content>>

\* getContextForQuestion returned, on the similarity path, two emails at different
\* distances and a contact after them
C16_Witness ==
    /\ search.called
    /\ search.caller = "getContextForQuestion"
    /\ search.result.path = "similarity"
    /\ Len(search.result.emails) >= 2
    /\ search.result.emails[1].score # NULL
    /\ search.result.emails[2].score # NULL
    /\ search.result.emails[1].score[1] < search.result.emails[2].score[1]
    /\ Len(search.result.contacts) >= 1
    /\ search.context[3][1] \in {"Email", "Contact"}

\* C17: every hit searchRelevantContext(userId, ...) returns, on the similarity path
\* and on the lexical path, is an item stored under that userId, and so is every snippet
\* of the block getContextForQuestion hands to a chat turn or a fallback reply; this
\* holds for every query, one without a token longer than two characters included.
C17_HitsBelongToUser ==
    search.called =>
        LET es == search.result.emails
            cs == search.result.contacts
        IN /\ \A i \in DOMAIN es :
                /\ es[i].row \in emailStore
                /\ es[i].row.userId = search.userId
                /\ es[i].content = EmailHit(es[i].row, NULL).content
           /\ \A i \in DOMAIN cs :
                /\ cs[i].row \in contactStore
                /\ cs[i].row.userId = search.userId
                /\ cs[i].content = ContactHit(cs[i].row, NULL).content
           /\ \A k \in DOMAIN search.context :
                \/ \E i \in DOMAIN es : search.context[k] = <<"Email", es[i].content>>
                \/ \E i \in DOMAIN cs : search.context[k] = <<"Contact", cs[i].content>>

\* the text search returned a hit to one user while an email of another user matches
\* the query too
C17_Witness ==
    /\ search.called
    /\ search.lexical
    /\ Len(search.result.emails) >= 1
    /\ \E row \in emailStore :
          /\ row.userId # search.userId
          /\ EmailMatches(row, SearchTerms(search.query))

\* the stored rows of a corpus
StoreOf(kind) == IF kind = "email" THEN emailStore ELSE contactStore

\* the external id of a stored row
ExternalId(kind, row) == IF kind = "email" THEN row.messageId ELSE row.contactId

C21_OnePerOwner ==
    \A kind \in {"email", "contact"} :
        \A a, b \in StoreOf(kind) :
            (a.userId = b.userId /\ ExternalId(kind, a) = ExternalId(kind, b)) => a = b

C21_OwnerGetsItem ==
    \A r \in RunIds :
        (RunActive(r) /\ runs'[r] = Advance(runs[r])) =>
            \E row \in (IF runs[r].kind = "email" THEN emailStore' ELSE contactStore') :
                /\ row.userId = runs[r].userId
                /\ ExternalId(runs[r].kind, row) = runs[r].items[runs[r].idx].id

\* C21: import uniqueness is per corpus and per owning user: there is at most one
\* stored item per (corpus, user, external id), and when a run of a user has gone
\* through an external id that user owns a stored item for it, also when another user
\* imported the same external id before.
C21_UniquePerOwner == [](C21_OnePerOwner) /\ [][C21_OwnerGetsItem]_vars

(***************************************************************************)
(* Properties of the routes (specification SpecRoutes).                    *)
(***************************************************************************)
\* C18: the chat route hands processMessage at most 20 turns, the most recent ones of
\* the conversation in chronological order, however many turns are stored, and
\* processMessage replays them unchanged and in order between the system instruction
\* and the new user turn.
C18_RecentWindow ==
    /\ (route.kind = "chat" /\ route.step = "agent") =>
          LET stored == ConversationRows(route.before, route.user, route.conversationId)
              n == Len(stored)
              k == IF n < 20 THEN n ELSE 20
          IN /\ Len(route.window) = k
             /\ \A i \in 1..k :
                    /\ route.window[i].content = stored[n - k + i].content
                    /\ route.window[i].role = RoleToLowerCase(stored[n - k + i].role)
    /\ (route.kind = "chat" /\ Len(modelRequests) >= 1) =>
          LET sent == modelRequests[1]
              k == Len(route.window)
          IN /\ Len(sent) = k + 2
             /\ sent[1].role = "system"
             /\ \A i \in 1..k : sent[1 + i] = route.window[i]
             /\ sent[k + 2] = [role |-> "user", content |-> route.message]

\* the turns of the request's conversation that are stored now
StoredNow == ConversationRows(chatMessages, route.user, route.conversationId)

C19_Stored ==
    route.kind = "chat" =>
        /\ route.step = "agent" => chatMessages = route.before
        /\ outcome.status = "thrown" => chatMessages = route.before
        /\ route.step = "save_assistant" =>
              /\ outcome.status = "returned"
              /\ chatMessages =
                    Append(route.before,
                           ChatRow(route.user, route.conversationId, "USER", route.message))
        /\ route.status = 200 =>
              /\ outcome.status = "returned"
              /\ chatMessages =
                    route.before
                        \o <<ChatRow(route.user, route.conversationId, "USER", route.message),
                              ChatRow(route.user, route.conversationId, "ASSISTANT",
                                      outcome.response.content)>>

C19_Step ==
    chatMessages' # chatMessages =>
        /\ pc = "done"
        /\ outcome.status = "returned"
        /\ Len(chatMessages') = Len(chatMessages) + 1
        /\ SubSeq(chatMessages', 1, Len(chatMessages)) = chatMessages
        /\ chatMessages'[Len(chatMessages')].conversationId = route.conversationId
        /\ chatMessages'[Len(chatMessages')].userId = route.user

\* C19: the chat route stores the turns of a request only after processMessage has
\* returned, the user turn first and the assistant turn second, both under the
\* conversation id of the request; when processMessage throws no turn is stored and
\* the stored conversation is as it was.
C19_PersistAfterReturn == [](C19_Stored) /\ [][C19_Step]_vars

\* a chat request continuing a stored conversation was answered and its two turns stored
C19_Witness ==
    /\ route.kind = "chat"
    /\ route.status = 200
    /\ Len(route.window) > 0
    /\ Len(StoredNow) = Len(route.window) + 2
    /\ StoredNow[Len(StoredNow)].role = "ASSISTANT"

\* what a read finds for a user whose last successful update set value
LastWritten(value) == IF value = "never" THEN NoInstructions ELSE value

C20_State ==
    /\ \A u \in Users : ongoingInstructions[u] = LastWritten(lastUpdate[u])
    /\ (route.kind = "instructions_get" /\ route.status = 200) =>
          route.body = InstructionsBody(LastWritten(lastUpdate[route.user]))
    /\ (turn.kind = "message" /\ pc = "model1") =>
          messages[1].instructions = LastWritten(lastUpdate[AgentUser])
    /\ (turn.kind = "webhook" /\ pc = "wh_model") =>
          messages[2].content[2] = LastWritten(lastUpdate[AgentUser])

C20_Step ==
    /\ ongoingInstructions' # ongoingInstructions =>
          /\ route'.kind = "instructions_post"
          /\ route'.status = 200
          /\ route'.user \in userRows
          /\ route'.instructions # ""
          /\ \A u \in Users :
                ongoingInstructions'[u] =
                    IF u = route'.user THEN route'.instructions ELSE ongoingInstructions[u]
    /\ (route' # route /\ route'.step = "done" /\ route'.status # 200) =>
          ongoingInstructions' = ongoingInstructions

\* C20: standing instructions are last-write-wins per user: a read (GET
\* /api/instructions, a chat turn, a webhook event) finds the value of the user's most
\* recent successful update and nothing of earlier ones; an update of one user leaves
\* the instructions of every other user as they were, and a rejected request
\* (unauthenticated, empty, unknown user) changes nothing.
C20_LastWriteWins == [](C20_State) /\ [][C20_Step]_vars

\* both users have updated their instructions and a chat turn of the agent's user has
\* read its own
C20_Witness ==
    /\ turn.kind = "message"
    /\ pc = "model1"
    /\ lastUpdate[AgentUser] = "other"
    /\ lastUpdate["u2"] = "rule"
    /\ messages[1].instructions = "other"

(***************************************************************************)
(* Properties of the task tools (specification SpecTasks).                 *)
(***************************************************************************)
\* the step is an executeToolCall call for the invocation toolCall
Executes(toolCall) ==
    /\ pc = "tools"
    /\ tcIndex <= Len(messageResponse.tool_calls)
    /\ toolCall = messageResponse.tool_calls[tcIndex]
    /\ Len(executed') = Len(executed) + 1

\* the step is an update_task call that returned
UpdatesTask(toolCall) ==
    /\ Executes(toolCall)
    /\ toolCall.name = "update_task"
    /\ ~executed'[Len(executed')].threw

C22_OwnedOnly ==
    /\ \A t \in 1..Len(tasks) : tasks'[t] # tasks[t] => tasks[t].userId = AgentUser
    /\ \A t \in (Len(tasks) + 1)..Len(tasks') : tasks'[t].userId = AgentUser
    /\ Len(tasks') >= Len(tasks)

\* C22: a step of the agent constructed for user U changes no task row of another user:
\* every row it creates is owned by U and every row it modifies was owned by U
C22_TasksOfOwnerOnly == [][C22_OwnedOnly]_vars

C24_Stamp ==
    \A toolCall \in {messageResponse.tool_calls[i] : i \in 1..Len(messageResponse.tool_calls)} :
        UpdatesTask(toolCall) =>
            LET t == toolCall.parsedArgs.taskId
            IN /\ toolCall.parsedArgs.status = "COMPLETED"
                    => tasks'[t].completedAt = Some(clock)
               /\ toolCall.parsedArgs.status # "COMPLETED"
                    => tasks'[t].completedAt = tasks[t].completedAt

\* C24: an update_task call that returns sets the task's completedAt to the current time
\* when its status argument is COMPLETED, and leaves completedAt as it was for any other
\* status or none
C24_CompletedAtFrame == [][C24_Stamp]_vars

\* a completed task of the agent's user was given another status and kept its timestamp,
\* and a pending one was completed
C24_Witness ==
    /\ tasks[2].status = "IN_PROGRESS"
    /\ tasks[2].completedAt = Some(0)
    /\ tasks[1].status = "COMPLETED"
    /\ tasks[1].completedAt = Some(clock)

(***************************************************************************)
(* Properties of the meeting summary (specification Spec).                 *)
(***************************************************************************)
\* the positions <<r, i>> of the entries of the requests sent to the model
SentMessages ==
    UNION {{<<r, i>> : i \in 1..Len(modelRequests[r])} : r \in 1..Len(modelRequests)}

\* the invocations of the turn that were calendar searches and did not fail
CalendarSearchesDone ==
    {i \in 1..Len(messageResponse.tool_calls) :
        /\ messageResponse.tool_calls[i].name = "search_calendar_events"
        /\ \E a \in 1..Len(executed) :
                executed[a].id = messageResponse.tool_calls[i].id /\ ~executed[a].threw}

\* the outcome entries of invocation i
OutcomesOf(i) ==
    {k \in 1..Len(toolResults) :
        toolResults[k].tool_call_id = messageResponse.tool_calls[i].id}

\* C23: a returned response carries meetingData only if a search_calendar_events
\* invocation of the turn ended without error; it is then computed after the second
\* model call, it has one entry per event of that invocation's outcome, and no message
\* sent to the model carries a meetingData entry
C23_MeetingSummary ==
    (outcome.status = "returned" /\ outcome.response.meetingData # NULL) =>
        LET meetingData == outcome.response.meetingData[1]
        IN /\ outcome.response.shape = "tools"
           /\ Len(modelRequests) = 2
           /\ \E i \in CalendarSearchesDone : \E k \in OutcomesOf(i) :
                /\ toolResults[k].content[1] = "result"
                /\ Len(meetingData) = Len(toolResults[k].content[2])
                /\ \A e \in 1..Len(meetingData) :
                        meetingData[e].title \in
                            {toolResults[k].content[2][e].summary, "Untitled Event"}
           /\ \A at \in SentMessages :
              LET m == modelRequests[at[1]][at[2]]
              IN
                /\ "meetingData" \notin DOMAIN m
                /\ \A e \in 1..Len(meetingData) : m # meetingData[e]
                /\ ("tool_call_id" \in DOMAIN m /\ m.content[1] = "result"
                        /\ \E i \in CalendarSearchesDone :
                                m.tool_call_id = messageResponse.tool_calls[i].id) =>
                        \A e \in 1..Len(m.content[2]) : m.content[2][e] \in CalendarEvents

\* a turn ran a failing invocation and then a calendar search that found two events, and
\* returned their projection
C23_Witness ==
    /\ outcome.status = "returned"
    /\ outcome.response.meetingData # NULL
    /\ Len(outcome.response.meetingData[1]) = 2
    /\ Len(executed) = 2
    /\ executed[1].threw
    /\ messageResponse.tool_calls[2].name = "search_calendar_events"

(***************************************************************************)
(* Termination of a turn (specification SpecTurn).                         *)
(***************************************************************************)
\* at most two model calls, no invocation executed twice, and what an ended turn yields
C25_Bounded ==
    /\ Len(modelRequests) <= 2
    /\ Len(executed) <= Len(messageResponse.tool_calls)
    /\ \A a, b \in 1..Len(executed) : executed[a].id = executed[b].id => a = b
    /\ pc = "done" =>
        \/ /\ outcome.status = "returned"
           /\ outcome.response.shape \in {"plain", "tools", "fallback"}
           /\ outcome.response.shape = "tools" =>
                    Len(executed) = Len(messageResponse.tool_calls)
        \/ /\ outcome.status = "thrown"
           /\ ~IsRegionError(outcome.error)

\* C25: every processMessage call ends, after at most two model calls and one execution
\* per tool invocation, by returning a response or by throwing an error that is not the
\* region error
C25_TurnTerminates == [](C25_Bounded) /\ (turn.kind = "message" ~> pc = "done")

\* a turn executed two invocations, made its second model call and ended by throwing
C25_Witness ==
    /\ pc = "done"
    /\ outcome.status = "thrown"
    /\ Len(modelRequests) = 2
    /\ Len(executed) = 2

(***************************************************************************)
(* Both corpora of a retrieval take the same path (specification SpecRag). *)
(***************************************************************************)
\* every hit of the list carries the score of the similarity query
SimilarityRanked(hits, q) ==
    \A i \in 1..Len(hits) : hits[i].score = Distance(hits[i].row.embedding, q)

\* every hit of the list carries the score of the text search
LexicalScored(hits) == \A i \in 1..Len(hits) : hits[i].score = TextScore

\* C26: the two lists of a searchRelevantContext result come from the same path: both
\* from the similarity queries when nothing failed, both from the text search with
\* score 0 when the provider is unavailable or any similarity step failed, both empty
\* when the text search failed; the context block of getContextForQuestion is built from
\* the two lists of that one result
C26_SamePath ==
    search.called =>
        /\ \/ /\ ~search.lexical
              /\ search.result.path = "similarity"
              /\ SimilarityRanked(search.result.emails, EmbedQuery(search.query))
              /\ SimilarityRanked(search.result.contacts, EmbedQuery(search.query))
           \/ /\ search.lexical /\ ~search.lexFailed
              /\ search.result.path = "lexical"
              /\ LexicalScored(search.result.emails)
              /\ LexicalScored(search.result.contacts)
           \/ /\ search.lexical /\ search.lexFailed
              /\ search.result.emails = << >>
              /\ search.result.contacts = << >>
        /\ search.caller = "getContextForQuestion" =>
              /\ Len(search.context) = Len(search.result.emails) + Len(search.result.contacts)
              /\ \A i \in 1..Len(search.result.emails) :
                    search.context[i] = <<"Email", search.result.emails[i].content>>
              /\ \A i \in 1..Len(search.result.contacts) :
                    search.context[Len(search.result.emails) + i] =
                        <<"Contact", search.result.contacts[i].content>>

\* with the provider available a similarity step failed, and the result holds lexical
\* hits of both corpora although the user stores an item whose similarity score is not 0
C26_Witness ==
    /\ search.called
    /\ ragAvailable
    /\ search.lexical
    /\ search.result.emails # << >>
    /\ search.result.contacts # << >>
    /\ LexicalScored(search.result.emails)
    /\ \E row \in emailStore :
            /\ row.userId = search.userId
            /\ row.embedding # NULL
            /\ Distance(row.embedding, EmbedQuery(search.query)) # TextScore

(***************************************************************************)
(* An embedding failure does not abort an import (specification SpecRag).  *)
(***************************************************************************)
\* the rows a step of run r stored
NewRows(r) ==
    IF runs[r].kind = "email" THEN emailStore' \ emailStore ELSE contactStore' \ contactStore

\* no run ends because embedQuery threw; a create step that did not throw stored the
\* current item, with the vector of its text or with none, and none when the provider
\* is unavailable, and moved on to the next item
C27_Step ==
    \A r \in RunIds :
        /\ ~runs'[r].embedThrew
        /\ (runs[r].status = "create" /\ runs'[r] # runs[r] /\ runs'[r].status # "failed") =>
            LET item == runs[r].items[runs[r].idx]
            IN /\ runs'[r] = Advance(runs[r])
               /\ \E row \in NewRows(r) :
                    /\ NewRows(r) = {row}
                    /\ row.userId = runs[r].userId
                    /\ ExternalId(runs[r].kind, row) = item.id
                    /\ row.embedding = NULL
                        \/ (ragAvailable /\ row.embedding # NULL)

\* a retrieval for a user who stores an item without a vector does not raise
C27_RetrievalOverVectorless ==
    (search.called /\ \E row \in emailStore \cup contactStore :
                            row.userId = search.userId /\ row.embedding = NULL) =>
        ~search.result.threw

\* C27: an embedding failure or an unavailable provider never ends an import: the item
\* is stored without a vector and the run goes on with the next item; a later retrieval
\* over such items does not raise
C27_EmbeddingFailureTolerated == [](C27_RetrievalOverVectorless) /\ [][C27_Step]_vars

\* with the provider available, the user's first email was stored without a vector, a
\* later one with its vector, and a similarity retrieval over both returned
C27_Witness ==
    /\ ragAvailable
    /\ search.called
    /\ ~search.lexical
    /\ ~search.result.threw
    /\ \E a, b \in emailStore :
            /\ a.userId = search.userId /\ b.userId = search.userId
            /\ a.messageId = "m1" /\ a.embedding = NULL
            /\ b.messageId = "m2" /\ b.embedding # NULL

(***************************************************************************)
(* Properties of the webhook route (specification SpecWebhook).            *)
(***************************************************************************)
C28_State ==
    /\ (turn.kind = "webhook" /\ pc = "done") => outcome.status = "returned"
    /\ (route.kind = "webhook" /\ route.event = "processed") =>
          /\ route.pending = << >>
          /\ \A u \in UsersWithInstructions : \E i \in 1..Len(route.handled) :
                route.handled[i] = u
    /\ (route.kind = "webhook" /\ route.status = 401) =>
          /\ route.event = "none"
          /\ route.handled = << >>
          /\ route.user = "none"

C28_Step ==
    /\ (route.kind = "webhook" /\ route.step = "agent" /\ pc = "done" /\ route' # route) =>
          /\ route'.step = "loop"
          /\ route'.handled = Append(route.handled, route.user)
          /\ route'.pending = route.pending
          /\ route'.status = 0
    /\ pc' # pc => route'.kind = "webhook" /\ route'.event = "stored"
    /\ (route.event # "processed" /\ route'.event = "processed") =>
          route.pending = << >> /\ pc \in {"idle", "done"}

\* C28: a processWebhookEvent call always returns, so the webhook route goes on with
\* the remaining users after a call that met a model or tool failure; the event is
\* marked processed only when the call of every user holding instructions has returned;
\* a request without a signature stores no event and starts no agent call
C28_WebhookRoute == [](C28_State) /\ [][C28_Step]_vars

\* the call of the first user met a failure, the second user was processed after it
\* and the event was marked processed
C28_Witness ==
    /\ route.kind = "webhook"
    /\ route.event = "processed"
    /\ Len(route.handled) = 2
    /\ route.handled[1] \in route.failed

(***************************************************************************)
(* A failing second model call in the chat route (specification SpecRoutes). *)
(***************************************************************************)
\* the second model call of the chat turn threw an error that is not the region error,
\* after the tool loop
SecondCallFailed ==
    /\ route.kind = "chat"
    /\ turn.kind = "message"
    /\ pc = "done"
    /\ Len(modelRequests) = 2
    /\ modelError # NoError
    /\ ~IsRegionError(modelError)

\* the operations the executed invocations performed, in order
PerformedCalls(n) ==
    IF n = 0 THEN << >>
    ELSE IF n = 1 THEN executed[1].calls
    ELSE executed[1].calls \o executed[2].calls

C29_State ==
    SecondCallFailed =>
        /\ outcome = ThrownOut(modelError)
        /\ Len(executed) = Len(messageResponse.tool_calls)
        /\ Len(executed) <= 2
        /\ collaboratorCalls = PerformedCalls(Len(executed))
        /\ \A a \in 1..Len(executed) :
                (messageResponse.tool_calls[a].name = "create_task" /\ ~executed[a].threw) =>
                    /\ Len(tasks) = Len(StoredTasks) + 1
                    /\ tasks[Len(tasks)].userId = route.user
        /\ chatMessages = route.before
        /\ route.step \in {"agent", "done"}
        /\ route.step = "done" =>
                route.status = 500 /\ route.body = "Internal server error"

C29_Step ==
    SecondCallFailed =>
        /\ tasks' = tasks
        /\ collaboratorCalls' = collaboratorCalls
        /\ chatMessages' = chatMessages
        /\ outcome' = outcome

\* C29: when the second model call of a chat turn fails with an error that is not the
\* region error, processMessage throws that error and returns no response; what the
\* executed tools did stays done; the chat route stores no turn of the request and
\* answers 500 with the generic message
C29_SecondCallFailure == [](C29_State) /\ [][C29_Step]_vars

\* a chat turn created a task, its second model call failed, and the route has answered
C29_Witness ==
    /\ SecondCallFailed
    /\ route.step = "done"
    /\ route.status = 500
    /\ Len(executed) = 1
    /\ ~executed[1].threw
    /\ messageResponse.tool_calls[1].name = "create_task"
    /\ Len(tasks) = Len(StoredTasks) + 1

(***************************************************************************)
(* Concurrent imports (specification SpecImports).                         *)
(***************************************************************************)
\* at most one stored item per external id
C30_OnePerId ==
    \A a, b \in emailStore : a.messageId = b.messageId => a = b

\* a run that comes to create an item which the other run has stored since the run's
\* existence check does not end with an error
C30_Step ==
    \A r \in RunIds :
        (/\ runs[r].status = "create"
         /\ Existing("email", runs[r].items[runs[r].idx].id) # {}
         /\ runs'[r] # runs[r]) => runs'[r].status # "failed"

\* C30: under every interleaving of two importEmails runs over overlapping message ids
\* at most one item per id is stored and a run never fails on an item the other run
\* stored between its check and its create
C30_ConcurrentImports == [](C30_OnePerId) /\ [][C30_Step]_vars

====
